---- MODULE Spec2Model ----
(***************************************************************************)
(* Verification model of the mock-server request-resolution core:          *)
(*   - the active-wait registry (services/semaphore.service.js),           *)
(*   - the mock response pipeline (middlewares/routes.middleware.js),      *)
(*   - the criteria evaluator (services/criteria-evaluator.service.js),    *)
(*   - the rule matcher (services/sqlite.service.js, getRuta),             *)
(*   - the proxy forwarding engine (middlewares/proxy.middleware.js),      *)
(*   - the administrative API that writes rules and conditions             *)
(*     (routes/api.js) and the reload of the proxy snapshot.               *)
(*                                                                         *)
(* JavaScript values are encoded as strings: plain strings stand for       *)
(* themselves, numbers carry a leading "#", and the three non-string,      *)
(* non-number values used by the code have the markers below.              *)
(***************************************************************************)
EXTENDS Integers, Sequences, FiniteSets, TLC

VARIABLES
    waitList,    \* semaphore.service: the shared list, as the ids of its elements in push order
    item,        \* the element objects: id -> [sleep, customResponse]
    task,        \* position of each caller of addToListAndWait
    readBack,    \* what each caller read from its element when it resumed
    relArgs,     \* history: the arguments of the wakeUp calls that returned true, per id
    lastCall,    \* history: the last wakeUp call [id, arg, ret]
    calls,       \* history: number of wakeUp calls made so far
    rutas,       \* sqlite store: the rows of table rutas, in rowid order
    conds,       \* sqlite store: the rows of conditional_responses of the route, in rowid order
    req,         \* the inbound request: [url, tipo] (tipo is method.toLowerCase())
    pc,          \* checkRoute: position of the handler
    rute,        \* checkRoute: local rute, a sequence holding the row found (empty: undefined)
    fields,      \* checkRoute: locals responseCode, responseType, responseBody, responseHeaders
    custom,      \* checkRoute: local customResponse
    out,         \* the response written to the caller
    proxy,       \* proxyHandler: the closure of one proxied exchange and its response object
    evalCall,    \* criteria evaluator: one call of validateCriteria / evaluateCriteria
    admin        \* administrative API: the calls in flight and the loaded proxy snapshot

semVars == <<waitList, item, task, readBack, relArgs, lastCall, calls>>

pipeVars == <<rutas, conds, req, pc, rute, fields, custom, out>>

vars == <<waitList, item, task, readBack, relArgs, lastCall, calls,
          rutas, conds, req, pc, rute, fields, custom, out, proxy, evalCall, admin>>

-----------------------------------------------------------------------------
(* Bounds *)

NReq == 2
MaxCalls == 3
MaxRules == 2
MaxConds == 2
PipeCalls == 1
MaxFallbacks == 2
MaxRows == 3
MaxDrift == 1
MaxTokens == 2
MaxEvals == 2
MaxPayload == 2
MaxPuts == 2
MaxStored == 2
MaxWrites == 3

-----------------------------------------------------------------------------
(* JavaScript values *)

JsUndefined == "<undefined>"
JsNull == "<null>"
JsObject == "<object>"
JsNaN == "#NaN"

\* JavaScript truthiness of an encoded value.
Truthy(v) == v \notin {JsUndefined, JsNull, "", "#0", JsNaN}

-----------------------------------------------------------------------------
(* Active-wait registry: services/semaphore.service.js *)

\* Ids of the elements that can be parked; GhostId is an id no element ever has.
Ids == 1..NReq
GhostId == 0

\* The customResponse argument of wakeUp: undefined (not passed), null, an
\* object with optional code, type, body and headers, or some other value.
CrUndefined ==
    [t |-> "undefined", code |-> JsUndefined, type |-> JsUndefined,
     body |-> JsUndefined, headers |-> JsUndefined]

CrNull ==
    [t |-> "null", code |-> JsUndefined, type |-> JsUndefined,
     body |-> JsUndefined, headers |-> JsUndefined]

CrString ==
    [t |-> "string", code |-> JsUndefined, type |-> JsUndefined,
     body |-> JsUndefined, headers |-> JsUndefined]

CrObject(code, type, body, headers) ==
    [t |-> "object", code |-> code, type |-> type, body |-> body, headers |-> headers]

\* The payloads the release trigger passes in the registry specification:
\* none, null, { code: 200 } and { code: 404 }.
RegOverrides ==
    {CrUndefined, CrNull,
     CrObject("#200", JsUndefined, JsUndefined, JsUndefined),
     CrObject("#404", JsUndefined, JsUndefined, JsUndefined)}

\* const init = () => { waitList = []; }
init == <<>>

\* waitList.filter(ele => ele.id !== id)
RECURSIVE FilterOut(_, _)
FilterOut(list, id) ==
    IF list = <<>> THEN <<>>
    ELSE IF Head(list) # id THEN <<Head(list)>> \o FilterOut(Tail(list), id)
         ELSE FilterOut(Tail(list), id)

\* Array.prototype.find over the list: the first element whose id is `id`
\* (elements are named by their ids), or NotFound for undefined.
NotFound == -1

RECURSIVE FindIn(_, _)
FindIn(list, id) ==
    IF list = <<>> THEN NotFound
    ELSE IF Head(list) = id THEN Head(list) ELSE FindIn(Tail(list), id)

\* A find whose callback assigns instead of comparing: every element passes,
\* so the first element of the list is returned.
findInListFirst(id) == IF waitList = <<>> THEN NotFound ELSE Head(waitList)

\* function findInList(id) { return waitList.find(element => element.id === id); }
findInList(id) == FindIn(waitList, id)

\* const getList = () => waitList ?? []
getList == waitList

InList(id) == \E i \in 1..Len(waitList) : waitList[i] = id

\* wakeUp's default parameter: customResponse = null replaces undefined only.
DefaultNull(arg) == IF arg = CrUndefined THEN CrNull ELSE arg

\* addToListAndWait up to its first suspension: push, test sleep, snooze.
\* The element is created by the caller with sleep: true and no customResponse.
addToListAndWait(id) ==
    /\ task[id] = "idle"
    /\ waitList' = Append(waitList, id)
    /\ item' = [item EXCEPT ![id] = [sleep |-> TRUE, customResponse |-> CrUndefined]]
    /\ task' = [task EXCEPT ![id] = "waiting"]
    /\ UNCHANGED <<readBack, relArgs, lastCall, calls>>

\* Variant of the wait loop with a wake-up that does not test the flag (a
\* timeout): the caller leaves the list and resumes whatever sleep is.
WaitExitUnguarded(id) ==
    /\ task[id] = "waiting"
    /\ waitList' = FilterOut(waitList, id)
    /\ task' = [task EXCEPT ![id] = "resumed"]
    /\ readBack' = [readBack EXCEPT ![id] = item[id].customResponse]
    /\ UNCHANGED <<item, relArgs, lastCall, calls>>

\* A snooze timer of addToListAndWait fires and the loop test fails: the loop
\* exits, the element is filtered out of the list and the caller resumes and
\* reads element.customResponse. (A timer that fires while sleep is still
\* true re-arms itself and changes nothing.)
WaitExit(id) ==
    /\ task[id] = "waiting"
    /\ item[id].sleep # TRUE
    /\ waitList' = FilterOut(waitList, id)
    /\ task' = [task EXCEPT ![id] = "resumed"]
    /\ readBack' = [readBack EXCEPT ![id] = item[id].customResponse]
    /\ UNCHANGED <<item, relArgs, lastCall, calls>>

\* Variant of wakeUp that stores the override but forgets element.sleep = false.
wakeUpNoFlip(id, arg) ==
    /\ calls' = calls + 1
    /\ LET customResponse == DefaultNull(arg)
           element == findInList(id)
       IN IF element = NotFound
          THEN /\ lastCall' = [id |-> id, arg |-> arg, ret |-> FALSE]
               /\ UNCHANGED <<item, relArgs>>
          ELSE /\ item' = [item EXCEPT ![element].customResponse =
                                IF customResponse # CrNull THEN customResponse ELSE @]
               /\ relArgs' = [relArgs EXCEPT ![id] = Append(@, arg)]
               /\ lastCall' = [id |-> id, arg |-> arg, ret |-> TRUE]
    /\ UNCHANGED <<waitList, task, readBack>>

\* wakeUp(id, customResponse = null), called by POST /initTask.
wakeUp(id, arg) ==
    /\ calls' = calls + 1
    /\ LET customResponse == DefaultNull(arg)
           element == findInList(id)
       IN IF element = NotFound
          THEN /\ lastCall' = [id |-> id, arg |-> arg, ret |-> FALSE]
               /\ UNCHANGED <<item, relArgs>>
          ELSE /\ item' = [item EXCEPT ![element] =
                     [sleep |-> FALSE,
                      customResponse |-> IF customResponse # CrNull
                                         THEN customResponse
                                         ELSE item[element].customResponse]]
               /\ relArgs' = [relArgs EXCEPT ![id] = Append(@, arg)]
               /\ lastCall' = [id |-> id, arg |-> arg, ret |-> TRUE]
    /\ UNCHANGED <<waitList, task, readBack>>

-----------------------------------------------------------------------------
(* Strings that the code takes apart are sequences of characters *)

\* ruta.split("?")[0]
RECURSIVE BeforeQuery(_)
BeforeQuery(s) ==
    IF s = <<>> \/ Head(s) = "?" THEN <<>>
    ELSE <<Head(s)>> \o BeforeQuery(Tail(s))

\* The pattern without its anchors.
RegexBody(p) ==
    LET a == IF p # <<>> /\ p[1] = "^" THEN 2 ELSE 1
        b == IF p # <<>> /\ p[Len(p)] = "$" THEN Len(p) - 1 ELSE Len(p)
    IN SubSeq(p, a, b)

\* new RegExp(pattern) throws on an unterminated group and on a quantifier
\* with nothing to repeat.
RegexCompiles(p) ==
    /\ \A i \in 1..Len(p) : p[i] # "("
    /\ RegexBody(p) = <<>> \/ RegexBody(p)[1] # "*"

\* The lengths n such that the pattern body re matches exactly the first n
\* characters of s. The body is made of literal characters, "." and the
\* quantifier "*" after either.
RECURSIVE MatchEnds(_, _)
MatchEnds(re, s) ==
    IF re = <<>> THEN {0}
    ELSE IF Len(re) >= 2 /\ re[2] = "*"
    THEN LET ks == {k \in 0..Len(s) : \A i \in 1..k : re[1] = "." \/ s[i] = re[1]}
         IN UNION {{k + n : n \in MatchEnds(SubSeq(re, 3, Len(re)), SubSeq(s, k + 1, Len(s)))} :
                      k \in ks}
    ELSE IF s # <<>> /\ (re[1] = "." \/ re[1] = s[1])
    THEN {1 + n : n \in MatchEnds(Tail(re), Tail(s))}
    ELSE {}

\* regex.test(s): a match of the body at some position, at the start when
\* the pattern begins with "^", up to the end when it ends with "$".
RegexTest(p, s) ==
    LET body == RegexBody(p)
    IN \E i \in 1..(Len(s) + 1) :
          \E n \in MatchEnds(body, SubSeq(s, i, Len(s))) :
             /\ (p # <<>> /\ p[1] = "^") => i = 1
             /\ (p # <<>> /\ p[Len(p)] = "$") => i + n - 1 = Len(s)

-----------------------------------------------------------------------------
(* Rule matcher: services/sqlite.service.js, getRuta *)

\* SQL NULL in an INTEGER column.
SqlNull == -1

\* COALESCE(orden, 999999)
OrdenDefault == 999999

COALESCE(v, d) == IF v = SqlNull THEN d ELSE v

Rows(table) == {table[i] : i \in 1..Len(table)}

\* (tipo = ? OR tipo = 'any')
MethodOk(r, tipo) == r.tipo = tipo \/ r.tipo = "any"

\* (activo IS NULL OR activo = 1)
IsActive(r) == r.activo = SqlNull \/ r.activo = 1

\* The WHERE clause of the exact-match query.
LiteralRows(table, rutaSinQuery, tipo) ==
    {r \in Rows(table) :
        /\ r.ruta = rutaSinQuery
        /\ MethodOk(r, tipo)
        /\ (r.isRegex = SqlNull \/ r.isRegex = 0)
        /\ IsActive(r)}

\* The sort key without the CASE on the method.
LiteralKeyNoMethod(r, tipo) == <<0, COALESCE(r.orden, OrdenDefault)>>

\* ORDER BY CASE WHEN tipo = ? THEN 0 ELSE 1 END, COALESCE(orden, 999999) ASC
LiteralKey(r, tipo) == <<IF r.tipo = tipo THEN 0 ELSE 1, COALESCE(r.orden, OrdenDefault)>>

KeyLeq(a, b) == a[1] < b[1] \/ (a[1] = b[1] /\ a[2] <= b[2])

\* LIMIT 1: a row that no other row precedes (rows with equal keys come in
\* an order SQL leaves open).
LiteralFirst(table, rutaSinQuery, tipo) ==
    LET rows == LiteralRows(table, rutaSinQuery, tipo)
    IN {r \in rows : \A o \in rows : KeyLeq(LiteralKey(r, tipo), LiteralKey(o, tipo))}

\* The WHERE clause of the regex query.
RegexRows(table, tipo) ==
    {r \in Rows(table) : r.isRegex = 1 /\ MethodOk(r, tipo) /\ IsActive(r)}

\* The orders in which ORDER BY COALESCE(orden, 999999) ASC can return the rows.
RegexOrders(rows) ==
    {sq \in [1..Cardinality(rows) -> rows] :
        /\ \A i, j \in 1..Cardinality(rows) : i # j => sq[i] # sq[j]
        /\ \A i, j \in 1..Cardinality(rows) :
              i < j => COALESCE(sq[i].orden, OrdenDefault) <= COALESCE(sq[j].orden, OrdenDefault)}

\* for (const route of regexRoutes): the first row whose pattern compiles
\* and tests true against the full URL; a pattern that throws is skipped.
RECURSIVE RegexLoop(_, _)
RegexLoop(routes, ruta) ==
    IF routes = <<>> THEN <<>>
    ELSE IF RegexCompiles(Head(routes).ruta) /\ RegexTest(Head(routes).ruta, ruta)
         THEN <<Head(routes)>>
         ELSE RegexLoop(Tail(routes), ruta)

\* The matcher with the regex stage consulted first.
getRutaRegexFirst(table, ruta, tipo) ==
    LET rutaSinQuery == BeforeQuery(ruta)
        exact == LiteralFirst(table, rutaSinQuery, tipo)
        viaRegex == {RegexLoop(sq, ruta) : sq \in RegexOrders(RegexRows(table, tipo))}
    IN IF viaRegex # {<<>>}
       THEN viaRegex \ {<<>>}
       ELSE IF exact # {} THEN {<<r>> : r \in exact} ELSE {<<>>}

\* getRuta(ruta, tipo): the results it can return over the table, each a
\* sequence holding the row found, or the empty sequence for undefined.
getRuta(table, ruta, tipo) ==
    LET rutaSinQuery == BeforeQuery(ruta)
        exact == LiteralFirst(table, rutaSinQuery, tipo)
    IN IF exact # {}
       THEN {<<r>> : r \in exact}
       ELSE {RegexLoop(sq, ruta) : sq \in RegexOrders(RegexRows(table, tipo))}

-----------------------------------------------------------------------------
(* Criteria evaluator: services/criteria-evaluator.service.js *)

\* An expression is described by whether validateCriteria accepts it and by
\* what vm.runInContext does with it: yield a truthy or a falsy value, throw
\* an Error, overrun the 100 ms budget, or throw null/undefined (for example
\* "(() => { throw null })()", which the validation accepts).
ExprInvalid == [valid |-> FALSE, run |-> "none"]

Expr(run) == [valid |-> TRUE, run |-> run]

Runs == {"true", "false", "throwsError", "timeout", "throwsNullish"}

Exprs == {ExprInvalid} \cup {Expr(r) : r \in Runs}

validateCriteria(expression) == expression.valid

\* The text of an expression: a value that is no string, or a string as the
\* sequence of the pieces it is written with.
NotAString == [string |-> FALSE, tokens |-> <<>>]
Text(tokens) == [string |-> TRUE, tokens |-> tokens]

\* Pieces of expression text: a name, a blank, denylisted constructs, the word
\* import with and without the blank after it, an unbalanced bracket, and a
\* run of 2001 letters.
TokenSyntaxError == "if ( {"
TokenLong == "a.repeat(2001)"
TokenImport == "import"
TokenImportBlank == "import "
Tokens ==
    {"x", " ", "process.", "eval(", "setTimeout(", "this.", TokenImportBlank,
     TokenSyntaxError, TokenLong}

\* Lines 79-101: DANGEROUS_PATTERNS, by the pieces of text they match.
DANGEROUS_PATTERNS ==
    {"require(", "import ", "import(", "eval(", "Function(", "setTimeout(", "setInterval(",
     "setImmediate(", "process.", "global.", "globalThis.", "this.", "constructor",
     "__proto__", "prototype", "Reflect.", "Proxy", "fs", "child_process", "exec", "spawn"}

\* Line 104
MAX_EXPRESSION_LENGTH == 2000

\* The number of characters of a piece and of a text.
TokenLength(token) ==
    CASE token = TokenLong -> 2001
      [] token \in {"x", " "} -> 1
      [] token = "process." -> 8
      [] token = "setTimeout(" -> 11
      [] token = TokenSyntaxError -> 6
      [] token = TokenImport -> 6
      [] token = TokenImportBlank -> 7
      [] OTHER -> 5

RECURSIVE TextLength(_)
TextLength(tokens) ==
    IF tokens = <<>> THEN 0 ELSE TokenLength(Head(tokens)) + TextLength(Tail(tokens))

\* expression.trim()
RECURSIVE TrimStart(_)
TrimStart(tokens) ==
    IF tokens # <<>> /\ Head(tokens) = " " THEN TrimStart(Tail(tokens)) ELSE tokens

RECURSIVE TrimEnd(_)
TrimEnd(tokens) ==
    IF tokens = <<>> THEN tokens
    ELSE IF tokens[Len(tokens)] = " " THEN TrimEnd(SubSeq(tokens, 1, Len(tokens) - 1))
    ELSE IF tokens[Len(tokens)] = TokenImportBlank
    THEN SubSeq(tokens, 1, Len(tokens) - 1) \o <<TokenImport>>
    ELSE tokens

Trim(tokens) == TrimEnd(TrimStart(tokens))

Contains(tokens, set) == \E i \in 1..Len(tokens) : tokens[i] \in set

\* Lines 132-136: new Function('return ' + trimmed) accepts the text.
Parses(tokens) == ~Contains(tokens, {TokenSyntaxError, TokenImport, TokenImportBlank})

\* validateCriteria without the loop over DANGEROUS_PATTERNS.
validateTextWithoutDenylist(text) ==
    IF ~text.string \/ text.tokens = <<>> THEN [valid |-> FALSE, error |-> "required"]
    ELSE IF Trim(text.tokens) = <<>> THEN [valid |-> FALSE, error |-> "empty"]
    ELSE IF TextLength(Trim(text.tokens)) > MAX_EXPRESSION_LENGTH
    THEN [valid |-> FALSE, error |-> "length"]
    ELSE IF ~Parses(Trim(text.tokens))
    THEN [valid |-> FALSE, error |-> "syntax"]
    ELSE [valid |-> TRUE, error |-> "none"]

\* Lines 109-139: validateCriteria on the text of an expression.
validateText(text) ==
    IF ~text.string \/ text.tokens = <<>> THEN [valid |-> FALSE, error |-> "required"]
    ELSE IF Trim(text.tokens) = <<>> THEN [valid |-> FALSE, error |-> "empty"]
    ELSE IF TextLength(Trim(text.tokens)) > MAX_EXPRESSION_LENGTH
    THEN [valid |-> FALSE, error |-> "length"]
    ELSE IF Contains(Trim(text.tokens), DANGEROUS_PATTERNS)
    THEN [valid |-> FALSE, error |-> "pattern"]
    ELSE IF ~Parses(Trim(text.tokens))
    THEN [valid |-> FALSE, error |-> "syntax"]
    ELSE [valid |-> TRUE, error |-> "none"]

\* The expression with the given text that, when run, behaves as run says.
ExprOf(text, run) == [valid |-> validateText(text).valid, run |-> run]

\* The expression errorType === 'timeout'.
ExprErrorTypeIsTimeout == Expr("errorTypeIsTimeout")

\* Lines 154-163: the names the sandbox takes from the context, besides the helpers.
SandboxKeys == {"headers", "body", "path", "query", "params", "method"}

\* Lines 154-163: the sandbox built from the context.
Sandbox(context) == [k \in SandboxKeys |-> context[k]]

\* The view of the request the handlers build for the evaluation.
RequestContext ==
    [headers |-> "headers", body |-> "body", path |-> "/a", query |-> "query",
     params |-> "params", method |-> "get"]

\* The request body with a property assigned by an expression.
BodyMutated == "body*"

\* What a call of evaluateCriteria leaves: an exception out of the call
\* (threw) or the object returned, whether vm.runInContext ran the
\* expression, and the body object of the context after the call.
Evaluated(threw, success, result, executed, body) ==
    [threw |-> threw, success |-> success, result |-> result,
     executed |-> executed, body |-> body]

\* evaluateCriteria(expression, context). The catch block reads error.message:
\* when the thrown value is null or undefined that read throws a TypeError,
\* which leaves evaluateCriteria (threw). An expression that reads a name
\* the sandbox does not hold throws a ReferenceError, which the catch
\* reports. sandbox.body is context.body itself (line 158), so an
\* assignment to a property of body changes the caller's object.
evaluateCriteria(expression, context) ==
    IF ~validateCriteria(expression)
    THEN Evaluated(FALSE, FALSE, FALSE, FALSE, context.body)
    ELSE CASE expression.run = "true" -> Evaluated(FALSE, TRUE, TRUE, TRUE, context.body)
           [] expression.run = "false" -> Evaluated(FALSE, TRUE, FALSE, TRUE, context.body)
           [] expression.run \in {"throwsError", "timeout"} ->
                  Evaluated(FALSE, FALSE, FALSE, TRUE, context.body)
           [] expression.run = "errorTypeIsTimeout" ->
                  IF "errorType" \in DOMAIN Sandbox(context)
                  THEN Evaluated(FALSE, TRUE, Sandbox(context)["errorType"] = "timeout",
                                 TRUE, context.body)
                  ELSE Evaluated(FALSE, FALSE, FALSE, TRUE, context.body)
           [] expression.run = "assignsBody" ->
                  Evaluated(FALSE, TRUE, TRUE, TRUE, BodyMutated)
           [] expression.run = "bodyIsAssigned" ->
                  Evaluated(FALSE, TRUE, Sandbox(context)["body"] = BodyMutated,
                            TRUE, context.body)
           [] OTHER -> Evaluated(TRUE, FALSE, FALSE, TRUE, context.body)

-----------------------------------------------------------------------------
(* Mock response pipeline: middlewares/routes.middleware.js, checkRoute *)

\* Number(v) for the values the model uses.
JsNumber(v) ==
    CASE v \in {"200", "#200"} -> "#200"
      [] v \in {"301", "#301"} -> "#301"
      [] v \in {"404", "#404"} -> "#404"
      [] v \in {"500", "#500"} -> "#500"
      [] v \in {"", "#0", JsNull} -> "#0"
      [] OTHER -> JsNaN

\* typeof v === 'string'
IsString(v) == v \notin {JsUndefined, JsNull, JsObject, JsNaN, "#0", "#200", "#301", "#404", "#500"}

\* A status code that writeHead accepts.
ValidStatus(code) == code \in {"#200", "#301", "#404", "#500"}

\* getConditionalResponses: WHERE (activo = 1 OR activo IS NULL) ORDER BY orden ASC.
\* saveConditionalResponses numbers the rows it inserts 0, 1, 2, ... so the
\* table is kept in orden order.
getConditionalResponses(table) == SelectSeq(table, IsActive)

\* Lines 118-121: the route defaults.
RouteDefaults(r) ==
    [code |-> JsNumber(r.codigo), type |-> r.tiporespuesta,
     body |-> r.respuesta, headers |-> r.customHeaders]

\* Lines 146-161: the overrides of the matched condition.
ApplyCondition(f, c) ==
    [code |-> IF Truthy(c.codigo) THEN JsNumber(c.codigo) ELSE f.code,
     type |-> IF Truthy(c.tiporespuesta) THEN c.tiporespuesta ELSE f.type,
     body |-> IF c.respuesta # JsNull /\ c.respuesta # JsUndefined THEN c.respuesta ELSE f.body,
     headers |-> IF Truthy(c.customHeaders) THEN c.customHeaders ELSE f.headers]

\* Lines 124-169: for (const condition of conditions) inside try/catch. An
\* exception out of evaluateCriteria ends the loop in catch (condErr), which
\* continues with the values held so far.
RECURSIVE ConditionLoop(_, _)
ConditionLoop(f, cs) ==
    IF cs = <<>> THEN f
    ELSE LET ev == evaluateCriteria(Head(cs).criteria, RequestContext)
         IN IF ev.threw THEN f
            ELSE IF ev.success /\ ev.result
                 THEN ApplyCondition(f, Head(cs))
                 ELSE ConditionLoop(f, Tail(cs))

\* Lines 226-243: the override of an active-wait release.
ApplyOverride(f, cr) ==
    IF cr.t = "object"
    THEN [code |-> IF Truthy(cr.code) THEN JsNumber(cr.code) ELSE f.code,
          type |-> IF Truthy(cr.type) THEN cr.type ELSE f.type,
          body |-> IF Truthy(cr.body) THEN cr.body ELSE f.body,
          headers |-> IF Truthy(cr.headers) THEN cr.headers ELSE f.headers]
    ELSE f

NoFields == [code |-> JsUndefined, type |-> JsUndefined, body |-> JsUndefined, headers |-> JsUndefined]

\* The response headers the model follows; Absent marks a header that is not set.
HeaderNames == {"Content-Type", "SOAPAction"}
Absent == "<absent>"
NoHeaders == [n \in HeaderNames |-> Absent]

\* Entries of a header-transform list.
SetHeader(name, value) == [action |-> "set", name |-> name, value |-> value]
RemoveHeader(name) == [action |-> "remove", name |-> name, value |-> ""]

\* customHeaders texts: JSON arrays with one entry on a followed header, and
\* a text that is no JSON. Every other text of the model stands for an array
\* of entries on headers that are not followed.
HSetType == "[set Content-Type application/custom]"
HRemoveType == "[remove Content-Type]"
HSetSoap == "[set SOAPAction urn:custom]"
HRemoveSoap == "[remove SOAPAction]"
HInvalid == "{not json"

\* Lines 40-45: result.data of safeJsonParse(customHeadersJson) when it
\* succeeds with an array.
HeaderTransforms(text) ==
    CASE text = HSetType -> <<SetHeader("Content-Type", "application/custom")>>
      [] text = HRemoveType -> <<RemoveHeader("Content-Type")>>
      [] text = HSetSoap -> <<SetHeader("SOAPAction", "urn:custom")>>
      [] text = HRemoveSoap -> <<RemoveHeader("SOAPAction")>>
      [] OTHER -> <<>>

\* Lines 47-55: result.data.forEach with res.setHeader and res.removeHeader.
RECURSIVE ApplyTransforms(_, _)
ApplyTransforms(h, ts) ==
    IF ts = <<>> THEN h
    ELSE LET e == Head(ts)
             h1 == IF e.name \notin HeaderNames THEN h
                   ELSE IF e.action = "set" THEN [h EXCEPT ![e.name] = e.value]
                   ELSE IF e.action = "remove" THEN [h EXCEPT ![e.name] = Absent]
                   ELSE h
         IN ApplyTransforms(h1, Tail(ts))

\* Lines 33-57: applyCustomHeaders(res, customHeadersJson)
applyCustomHeaders(h, customHeadersJson) ==
    IF ~Truthy(customHeadersJson) THEN h
    ELSE IF customHeadersJson = HInvalid THEN h
    ELSE ApplyTransforms(h, HeaderTransforms(customHeadersJson))

\* res.json, res.send, res.render and res.sendFile set Content-Type only
\* when the response has none.
SetIfAbsent(h, name, value) == IF h[name] = Absent THEN [h EXCEPT ![name] = value] ELSE h

\* The kind-specific headers once the transform list has run (applyCustomHeaders
\* at line 251 and then the render step of lines 270-363): res.redirect and
\* res.type overwrite Content-Type, soap sets SOAPAction.
KindHeadersAfterTransforms(step, h) ==
    CASE step = "redirect" -> [h EXCEPT !["Content-Type"] = "text/plain"]
      [] step = "text" -> [h EXCEPT !["Content-Type"] = "text/plain"]
      [] step = "html" -> [h EXCEPT !["Content-Type"] = "text/html"]
      [] step = "xml" -> [h EXCEPT !["Content-Type"] = "application/xml"]
      [] step = "soap" -> [h EXCEPT !["Content-Type"] = "text/xml", !["SOAPAction"] = "\"\""]
      [] step = "json" -> SetIfAbsent(h, "Content-Type", "application/json")
      [] step = "file" -> SetIfAbsent(h, "Content-Type", "application/octet-stream")
      [] step \in {"page", "send"} -> SetIfAbsent(h, "Content-Type", "text/html")
      [] OTHER -> h

\* The render step of lines 270-363 for a kind: the kinds the code names, and
\* res.send(responseBody) for every other kind.
RenderStep(type) ==
    IF type \in {"page", "file", "json", "text", "html", "xml", "soap", "empty"} THEN type
    ELSE "send"

NoResponse ==
    [sent |-> FALSE, status |-> JsUndefined, as |-> "none", body |-> JsUndefined,
     headers |-> NoHeaders]

\* Response written by the render step `as`, its headers those the transform
\* list customHeaders and then the render step leave.
ResponseWith(status, as, body, customHeaders) ==
    [sent |-> TRUE, status |-> status, as |-> as, body |-> body,
     headers |-> KindHeadersAfterTransforms(as, applyCustomHeaders(NoHeaders, customHeaders))]

Response(status, as, body) == ResponseWith(status, as, body, JsNull)

\* The handler's item id in the registry.
ReqId == 1

\* Lines 95-105 and 366-371: look the rule up; a proxy rule or no rule goes
\* to the next middleware.
CheckRouteMatch ==
    /\ pc = "start"
    /\ \E found \in getRuta(rutas, req.url, req.tipo) :
          /\ rute' = found
          /\ pc' = IF found = <<>> \/ found[1].tiporespuesta = "proxy"
                   THEN "next" ELSE "matched"
    /\ UNCHANGED <<rutas, conds, req, fields, custom, out>>
    /\ UNCHANGED <<semVars, proxy, evalCall, admin>>

\* Lines 118-169: seed the defaults and evaluate the conditions.
CheckRouteResolve ==
    /\ pc = "matched"
    /\ fields' = ConditionLoop(RouteDefaults(rute[1]), getConditionalResponses(conds))
    /\ pc' = "resolved"
    /\ UNCHANGED <<rutas, conds, req, rute, custom, out>>
    /\ UNCHANGED <<semVars, proxy, evalCall, admin>>

\* Lines 171-213: with esperaActiva = 1 build itemLW and park it.
CheckRoutePark ==
    /\ pc = "resolved"
    /\ IF rute[1].esperaActiva = 1
       THEN addToListAndWait(ReqId) /\ pc' = "parked"
       ELSE pc' = "render" /\ UNCHANGED semVars
    /\ UNCHANGED <<rutas, conds, req, rute, fields, custom, out, proxy, evalCall, admin>>

\* Lines 213-220: the wait returns; keep itemLW.customResponse when it is
\* neither undefined nor null.
CheckRouteResume ==
    /\ pc = "parked"
    /\ WaitExit(ReqId)
    /\ custom' = IF item[ReqId].customResponse \notin {CrUndefined, CrNull}
                 THEN item[ReqId].customResponse ELSE CrNull
    /\ pc' = "reload"
    /\ UNCHANGED <<rutas, conds, req, rute, fields, out, proxy, evalCall, admin>>

\* Line 221: rute = await getRuta(url, method) after the wait.
CheckRouteReload ==
    /\ pc = "reload"
    /\ \E found \in getRuta(rutas, req.url, req.tipo) : rute' = found
    /\ pc' = "render"
    /\ UNCHANGED <<rutas, conds, req, fields, custom, out>>
    /\ UNCHANGED <<semVars, proxy, evalCall, admin>>

\* Lines 226-363: apply the override, set the status and headers, render.
\* fileExists is fs.existsSync(fullPath). An exception leaves the async
\* handler as an unhandled rejection and no response is written.
RenderResult(f, cr, rt, fileExists) ==
    LET g == ApplyOverride(f, cr)
    IN  \* line 237: responseBody.substring of a body that is no string
        IF cr.t = "object" /\ Truthy(cr.body) /\ ~IsString(cr.body)
        THEN [pc |-> "unhandled", fields |-> f, out |-> NoResponse]
        \* line 251: applyCustomHeaders -> safeJsonParse: jsonString.trim()
        ELSE IF Truthy(g.headers) /\ ~IsString(g.headers)
        THEN [pc |-> "unhandled", fields |-> g, out |-> NoResponse]
        \* line 271: redirect
        ELSE IF g.code = "#301"
        THEN [pc |-> "done", fields |-> g, out |-> ResponseWith("#301", "redirect", g.body, g.headers)]
        ELSE IF g.type = "empty"
        THEN [pc |-> IF ValidStatus(g.code) THEN "done" ELSE "unhandled", fields |-> g,
              out |-> IF ValidStatus(g.code)
                      THEN ResponseWith(g.code, "empty", JsUndefined, g.headers)
                      ELSE NoResponse]
        ELSE IF g.type = "file"
        THEN \* line 288: rute.filePath with rute undefined; lines 294 and 303:
             \* res.status(...) after line 246 assigned a number to res.status
             IF rt = <<>> \/ ~Truthy(rt[1].filePath) \/ ~fileExists
             THEN [pc |-> "unhandled", fields |-> g, out |-> NoResponse]
             ELSE [pc |-> IF ValidStatus(g.code) THEN "done" ELSE "unhandled", fields |-> g,
                   out |-> IF ValidStatus(g.code)
                           THEN ResponseWith(g.code, "file", rt[1].filePath, g.headers)
                           ELSE NoResponse]
        ELSE IF ~ValidStatus(g.code)
        THEN [pc |-> "unhandled", fields |-> g, out |-> NoResponse]
        ELSE IF g.type = "json"
        THEN \* safeJsonParse: jsonString.trim() of a body that is no string
             IF Truthy(g.body) /\ ~IsString(g.body)
             THEN [pc |-> "unhandled", fields |-> g, out |-> NoResponse]
             ELSE [pc |-> "done", fields |-> g, out |-> ResponseWith(g.code, "json", g.body, g.headers)]
        ELSE [pc |-> "done", fields |-> g,
              out |-> ResponseWith(g.code, RenderStep(g.type), g.body, g.headers)]

CheckRouteRender ==
    /\ pc = "render"
    /\ \E fileExists \in BOOLEAN :
          LET r == RenderResult(fields, custom, rute, fileExists)
          IN /\ pc' = r.pc
             /\ fields' = r.fields
             /\ out' = r.out
    /\ UNCHANGED <<rutas, conds, req, rute, custom>>
    /\ UNCHANGED <<semVars, proxy, evalCall, admin>>

\* DELETE /api/delete/:id
DeleteRoute ==
    /\ \E i \in 1..Len(rutas) :
          rutas' = SubSeq(rutas, 1, i - 1) \o SubSeq(rutas, i + 1, Len(rutas))
    /\ UNCHANGED <<conds, req, pc, rute, fields, custom, out>>
    /\ UNCHANGED <<semVars, proxy, evalCall, admin>>

-----------------------------------------------------------------------------
(* Proxied exchange: proxy.middleware.js, proxyHandler *)

\* getErrorType with every upstream error taken for a connection failure.
getErrorTypeAnyError(err, statusCode) ==
    IF err # JsNull THEN "connection"
    ELSE IF statusCode >= 500 /\ statusCode < 600 THEN "http5xx"
    ELSE JsNull

\* getErrorType(err, statusCode); err is the error's code (JsNull for none),
\* statusCode is 0 for none.
getErrorType(err, statusCode) ==
    IF err \in {"ETIMEDOUT", "ESOCKETTIMEDOUT"} THEN "timeout"
    ELSE IF err \in {"ECONNREFUSED", "ENOTFOUND", "ECONNRESET", "EHOSTUNREACH"} THEN "connection"
    ELSE IF statusCode >= 500 /\ statusCode < 600 THEN "http5xx"
    ELSE JsNull

\* The stored error_types text of a fallback, by what JSON.parse makes of it:
\* a list of strings, a SyntaxError, or a value that is no list (null, a number).
TypesList(l) == [parse |-> "list", list |-> l]
TypesUnparsable == [parse |-> "throws", list |-> {}]
TypesNotAList == [parse |-> "other", list |-> {}]

\* sqlite.service.js 535-549: getProxyFallbacks, the stored fallbacks of a
\* rule that are not switched off, ORDER BY orden ASC (insertion sort on orden;
\* the order indexes of one rule are distinct).
RECURSIVE InsertByOrden(_, _)
InsertByOrden(row, sorted) ==
    IF sorted = <<>> THEN <<row>>
    ELSE IF row.orden < Head(sorted).orden THEN <<row>> \o sorted
    ELSE <<Head(sorted)>> \o InsertByOrden(row, Tail(sorted))

RECURSIVE OrderByOrden(_)
OrderByOrden(rows) ==
    IF rows = <<>> THEN <<>> ELSE InsertByOrden(Head(rows), OrderByOrden(Tail(rows)))

getProxyFallbacks(stored) ==
    OrderByOrden(SelectSeq(stored, LAMBDA f : f.activo \in {1, SqlNull}))

\* Line 63 of loadProxyConfigs: (p.fallbacks || []).filter(f => f.activo === 1)
activeFallbacks(fallbacks) == SelectSeq(fallbacks, LAMBDA f : f.activo = 1)

\* Outcomes of findMatchingFallback: a fallback, null, or an exception.
Found(fallback) == [threw |-> FALSE, found |-> <<fallback>>]
NoneFound == [threw |-> FALSE, found |-> <<>>]
Threw == [threw |-> TRUE, found |-> <<>>]

\* The loop of findMatchingFallback with the test of the error types left out.
RECURSIVE FallbackLoopAnyType(_, _, _)
FallbackLoopAnyType(fallbacks, subPath, errorType) ==
    IF fallbacks = <<>> THEN NoneFound
    ELSE LET fallback == Head(fallbacks)
         IN IF RegexCompiles(fallback.path_pattern) /\ RegexTest(fallback.path_pattern, subPath)
            THEN Found(fallback)
            ELSE FallbackLoopAnyType(Tail(fallbacks), subPath, errorType)

\* Lines 116-142: for (const fallback of config.fallbacks). error_types is
\* parsed inside try/catch (a SyntaxError gives []); errorTypes.includes on a
\* parsed value that has no includes throws a TypeError out of the function.
\* new RegExp(path_pattern) is inside try/catch.
RECURSIVE FallbackLoop(_, _, _)
FallbackLoop(fallbacks, subPath, errorType) ==
    IF fallbacks = <<>> THEN NoneFound
    ELSE LET fallback == Head(fallbacks)
             errorTypes == IF fallback.error_types.parse = "list"
                           THEN fallback.error_types.list ELSE {}
         IN IF fallback.error_types.parse = "other" THEN Threw
            ELSE IF errorType \notin errorTypes /\ "all" \notin errorTypes
            THEN FallbackLoop(Tail(fallbacks), subPath, errorType)
            ELSE IF RegexCompiles(fallback.path_pattern)
                    /\ RegexTest(fallback.path_pattern, subPath)
            THEN Found(fallback)
            ELSE FallbackLoop(Tail(fallbacks), subPath, errorType)

\* findMatchingFallback(config, subPath, errorType)
findMatchingFallback(config, subPath, errorType) ==
    FallbackLoop(config.fallbacks, subPath, errorType)

\* requestUrl.startsWith(prefix)
StartsWith(s, prefix) == Len(prefix) <= Len(s) /\ SubSeq(s, 1, Len(prefix)) = prefix

\* match[0].length of requestPath.match(regex): the leftmost match, as long
\* as the quantifiers can make it; -1 when there is no match.
RegexMatchLength(p, s) ==
    LET body == RegexBody(p)
        ok(i, n) == /\ (p # <<>> /\ p[1] = "^") => i = 1
                    /\ (p # <<>> /\ p[Len(p)] = "$") => i + n - 1 = Len(s)
        starts == {i \in 1..(Len(s) + 1) :
                      \E n \in MatchEnds(body, SubSeq(s, i, Len(s))) : ok(i, n)}
    IN IF starts = {} THEN -1
       ELSE LET i0 == CHOOSE i \in starts : \A j \in starts : i <= j
                ns == {n \in MatchEnds(body, SubSeq(s, i0, Len(s))) : ok(i0, n)}
            IN CHOOSE n \in ns : \A m \in ns : m <= n

\* Lines 286-309: findMatchingProxy over the loaded snapshot; a regex rule
\* whose pattern throws is skipped, a literal rule matches as a prefix.
RECURSIVE findMatchingProxy(_, _)
findMatchingProxy(configs, requestUrl) ==
    IF configs = <<>> THEN <<>>
    ELSE LET config == Head(configs)
             hit == IF config.isRegex
                    THEN RegexCompiles(config.ruta) /\ RegexTest(config.ruta, requestUrl)
                    ELSE StartsWith(requestUrl, config.ruta)
         IN IF hit THEN <<config>> ELSE findMatchingProxy(Tail(configs), requestUrl)

\* Lines 348-385 and 435: the path sent upstream, which is also the subPath
\* the fallbacks are matched on. basePath is the target URL's pathname
\* without a trailing slash, empty when it is "/".
TargetPath(config, requestPath) ==
    LET n == IF config.isRegex
             THEN IF RegexCompiles(config.ruta) /\ RegexMatchLength(config.ruta, requestPath) >= 0
                  THEN RegexMatchLength(config.ruta, requestPath) ELSE 0
             ELSE IF StartsWith(requestPath, config.ruta) THEN Len(config.ruta) ELSE 0
        rest == SubSeq(requestPath, n + 1, Len(requestPath))
        slashed == IF rest # <<>> /\ rest[1] = "/" THEN rest ELSE <<"/">> \o rest
    IN config.basePath \o slashed

\* No response written.
NothingSent == [via |-> "none", status |-> 0, name |-> "", error |-> "", ms |-> 0]

\* Lines 149-242: sendFallbackResponse. The status is parseInt(codigo) || 200,
\* overridden by the first active condition that evaluates true;
\* evaluateCriteria is called outside any try.
RECURSIVE FallbackConditionLoop(_, _, _)
FallbackConditionLoop(code, cs, evalContext) ==
    IF cs = <<>> THEN [threw |-> FALSE, code |-> code]
    ELSE IF Head(cs).activo # 1 THEN FallbackConditionLoop(code, Tail(cs), evalContext)
    ELSE LET ev == evaluateCriteria(Head(cs).criteria, evalContext)
         IN IF ev.threw THEN [threw |-> TRUE, code |-> code]
            ELSE IF ev.success /\ ev.result
                 THEN [threw |-> FALSE,
                       code |-> IF Head(cs).codigo # 0 THEN Head(cs).codigo ELSE code]
                 ELSE FallbackConditionLoop(code, Tail(cs), evalContext)

\* Lines 162-170: evalContext, the view of the request with errorType added.
FallbackContext(errorType) ==
    [k \in SandboxKeys \cup {"errorType"} |->
        IF k = "errorType" THEN errorType ELSE RequestContext[k]]

sendFallbackResponse(fallback, errorType) ==
    LET r == FallbackConditionLoop(IF fallback.codigo # 0 THEN fallback.codigo ELSE 200,
                                   fallback.conditions, FallbackContext(errorType))
    IN [threw |-> r.threw,
        sent |-> [via |-> "fallback", status |-> r.code, name |-> fallback.nombre,
                  error |-> "", ms |-> 0]]

\* The upstream outcome a callback handled: the 'response' callback with a
\* status, the 'error' handler with an error code, or the timer.
NoOutcome == [kind |-> "none", err |-> JsNull, statusCode |-> 0]
ResponseOutcome(statusCode) == [kind |-> "response", err |-> JsNull, statusCode |-> statusCode]
ErrorOutcome(err) == [kind |-> "error", err |-> err, statusCode |-> 0]
TimerOutcome == [kind |-> "timer", err |-> JsNull, statusCode |-> 0]

\* A callback handles an outcome; errorType is the class it looks a fallback
\* up with, JsNull when it makes no lookup.
Handled(p, outcome, errorType) == [p EXCEPT !.outcome = outcome, !.errorType = errorType]

\* No exchange in progress.
ProxyIdle ==
    [phase |-> "idle", configs |-> <<>>, url |-> <<>>, config |-> <<>>, subPath |-> <<>>,
     attempts |-> 0, upstream |-> "none", encoding |-> "none", timeoutId |-> FALSE,
     timeoutTriggered |-> FALSE, headersSent |-> FALSE, finished |-> FALSE,
     writers |-> <<>>, sent |-> NothingSent, crashed |-> FALSE,
     outcome |-> NoOutcome, errorType |-> JsNull]

\* A writer sets the status line and headers of the inbound response and ends it.
WriteAndEnd(p, who, what) ==
    [p EXCEPT !.headersSent = TRUE, !.finished = TRUE, !.writers = Append(@, who),
              !.sent = IF p.headersSent THEN @ ELSE what]

\* An exception thrown inside a callback: nothing catches it.
Crash(p) == [p EXCEPT !.crashed = TRUE]

\* Answer with the fallback found, or with otherwise when there is none.
\* guarded says whether the write waits on !res.headersSent.
Answer(p, who, result, otherwise, guarded) ==
    IF result.threw THEN Crash(p)
    ELSE IF guarded /\ p.headersSent THEN p
    ELSE IF result.found # <<>>
         THEN LET fb == sendFallbackResponse(result.found[1], p.errorType)
              IN IF fb.threw THEN Crash(p) ELSE WriteAndEnd(p, who, fb.sent)
         ELSE WriteAndEnd(p, who, otherwise)

GatewayTimeout(config) ==
    [via |-> "gateway", status |-> 504, name |-> "", error |-> "Gateway Timeout",
     ms |-> config.timeout]

BadGateway == [via |-> "gateway", status |-> 502, name |-> "", error |-> "Bad Gateway", ms |-> 0]

ConfigError ==
    [via |-> "catch", status |-> 500, name |-> "", error |-> "Proxy configuration error", ms |-> 0]

Relayed(statusCode) == [via |-> "upstream", status |-> statusCode, name |-> "", error |-> "", ms |-> 0]

\* httpModule.request(options, ...) and the arming of the timer.
Forward(p, config) ==
    [p EXCEPT !.phase = "sent", !.config = <<config>>,
              !.subPath = TargetPath(config, p.url),
              !.attempts = @ + 1, !.upstream = "pending", !.timeoutId = TRUE]

\* The handler entered once more after the upstream request failed.
ProxyStartRetrying ==
    /\ ~proxy.crashed
    /\ proxy.phase = "new" \/ (proxy.phase = "sent" /\ proxy.upstream = "failed")
    /\ LET found == findMatchingProxy(proxy.configs, proxy.url)
       IN proxy' = IF found = <<>> THEN [proxy EXCEPT !.phase = "passed"]
                   ELSE Forward(proxy, found[1])
    /\ UNCHANGED <<semVars, pipeVars, evalCall, admin>>

\* Lines 320-441, 562 and 615-635: without a matching rule the request goes
\* to the next middleware; otherwise the upstream request is built and the
\* timer armed. new URL(proxyConfig.target) throws on a bad target and the
\* catch block answers 500.
ProxyStart ==
    /\ ~proxy.crashed
    /\ proxy.phase = "new"
    /\ LET found == findMatchingProxy(proxy.configs, proxy.url)
       IN proxy' = IF found = <<>> THEN [proxy EXCEPT !.phase = "passed"]
                   ELSE IF ~found[1].targetValid
                   THEN [WriteAndEnd(proxy, "catch", ConfigError)
                            EXCEPT !.phase = "sent", !.config = found]
                   ELSE Forward(proxy, found[1])
    /\ UNCHANGED <<semVars, pipeVars, evalCall, admin>>

\* Lines 441-559: the 'response' callback. The timer is cleared; a 5xx
\* status looks for a fallback; otherwise the status and headers are relayed.
UpstreamResponse(statusCode, contentEncoding) ==
    /\ ~proxy.crashed
    /\ proxy.upstream = "pending"
    /\ LET is5xx == statusCode >= 500 /\ statusCode < 600
           errorType == IF is5xx THEN getErrorType(JsNull, statusCode) ELSE JsNull
           cleared == Handled([proxy EXCEPT !.timeoutId = FALSE],
                              ResponseOutcome(statusCode), errorType)
           result == IF is5xx
                     THEN findMatchingFallback(proxy.config[1], proxy.subPath, errorType)
                     ELSE NoneFound
       IN proxy' = IF result.threw \/ result.found # <<>>
                   THEN [Answer(cleared, "response", result, NothingSent, FALSE)
                            EXCEPT !.upstream = "discarded"]
                   ELSE [cleared EXCEPT !.headersSent = TRUE,
                                        !.writers = Append(@, "response"),
                                        !.sent = Relayed(statusCode),
                                        !.upstream = "streaming",
                                        !.encoding = contentEncoding]
    /\ UNCHANGED <<semVars, pipeVars, evalCall, admin>>

\* Lines 506 and 536: the upstream body ends; res.end() directly or through the pipe.
UpstreamEnd ==
    /\ ~proxy.crashed
    /\ proxy.upstream = "streaming"
    /\ proxy' = [proxy EXCEPT !.upstream = "complete", !.finished = TRUE]
    /\ UNCHANGED <<semVars, pipeVars, evalCall, admin>>

\* Lines 502-504: the decompressor fails; the handler logs and the pipe to
\* res stops without ending it.
DecompressError ==
    /\ ~proxy.crashed
    /\ proxy.upstream = "streaming"
    /\ proxy.encoding = "gzip"
    /\ proxy' = [proxy EXCEPT !.upstream = "stalled"]
    /\ UNCHANGED <<semVars, pipeVars, evalCall, admin>>

\* The 'error' handler without the tests of res.headersSent.
onErrorUnguarded(p, err) ==
    LET cleared == [p EXCEPT !.timeoutId = FALSE]
    IN IF p.timeoutTriggered THEN cleared
       ELSE WriteAndEnd(Handled(cleared, ErrorOutcome(err), getErrorType(err, 0)),
                        "error", BadGateway)

\* Lines 581-613: the 'error' handler. It clears the timer, returns when the
\* timer has already answered, and otherwise sends the fallback found for a
\* classified error or the 502, each only if no headers were sent.
onError(p, err) ==
    LET cleared == [p EXCEPT !.timeoutId = FALSE]
        errorType == getErrorType(err, 0)
        result == IF errorType # JsNull
                  THEN findMatchingFallback(p.config[1], p.subPath, errorType)
                  ELSE NoneFound
    IN IF p.timeoutTriggered THEN cleared
       ELSE Answer(Handled(cleared, ErrorOutcome(err), errorType),
                   "error", result, BadGateway, TRUE)

\* The upstream request emits 'error': the connection fails before a
\* response, breaks while the body streams, or was destroyed by the timer.
UpstreamError(err) ==
    /\ ~proxy.crashed
    /\ proxy.upstream \in {"pending", "streaming", "destroyed"}
    /\ proxy' = [onError(proxy, err) EXCEPT !.upstream = "failed"]
    /\ UNCHANGED <<semVars, pipeVars, evalCall, admin>>

\* Lines 562-579: the timer fires: with no headers sent it marks the
\* exchange, destroys the upstream request and answers with the fallback for
\* 'timeout' or with the 504.
TimeoutFires ==
    /\ ~proxy.crashed
    /\ proxy.timeoutId
    /\ proxy' = IF ~proxy.headersSent
                THEN LET marked == Handled([proxy EXCEPT !.timeoutId = FALSE,
                                                         !.timeoutTriggered = TRUE,
                                                         !.upstream = "destroyed"],
                                           TimerOutcome, "timeout")
                     IN Answer(marked, "timer",
                               findMatchingFallback(proxy.config[1], proxy.subPath, "timeout"),
                               GatewayTimeout(proxy.config[1]), FALSE)
                ELSE [proxy EXCEPT !.timeoutId = FALSE]
    /\ UNCHANGED <<semVars, pipeVars, evalCall, admin>>

-----------------------------------------------------------------------------
(* Inputs of the specifications *)

UrlA == <<"/", "a">>
UrlAQuery == <<"/", "a", "?", "x">>
UrlB == <<"/", "b">>

PatternA == <<"^", "/", "a", "$">>
PatternBad == <<"(", "/", "a">>

\* A row of rutas with the given match columns; the response columns are
\* those of an html mock.
Row(id, tipo, ruta, isRegex, activo, orden) ==
    [id |-> id, tipo |-> tipo, ruta |-> ruta, isRegex |-> isRegex, activo |-> activo,
     orden |-> orden, tiporespuesta |-> "html", codigo |-> "200", respuesta |-> "rb",
     customHeaders |-> "[H0]", esperaActiva |-> 0, filePath |-> JsNull]

\* The rows a table of the matcher specification may hold at position id.
MatchRows(id) ==
    {Row(id, tipo, p[1], p[2], activo, orden) :
        tipo \in {"get", "any"},
        p \in {<<UrlA, 0>>, <<UrlA, SqlNull>>, <<PatternA, 1>>, <<PatternBad, 1>>},
        activo \in {0, 1},
        orden \in {1, 2, SqlNull}}

RECURSIVE RuleTables(_)
RuleTables(n) ==
    IF n = 0 THEN {<<>>}
    ELSE RuleTables(n - 1) \cup
         {Append(t, r) : t \in {u \in RuleTables(n - 1) : Len(u) = n - 1}, r \in MatchRows(n)}

Requests == {[url |-> u, tipo |-> t] : u \in {UrlA, UrlAQuery, UrlB}, t \in {"get", "post"}}

\* The mock route of the pipeline specifications.
MockRoute(kind, wait, filePath) ==
    [id |-> 1, tipo |-> "get", ruta |-> UrlA, isRegex |-> 0, activo |-> 1, orden |-> 1,
     tiporespuesta |-> kind, codigo |-> "200", respuesta |-> "rb",
     customHeaders |-> "[H0]", esperaActiva |-> wait, filePath |-> filePath]

\* The k-th condition of a route: its values name k, and `sets` says which of
\* the four override columns are not NULL.
CondCode(k) == IF k = 1 THEN "404" ELSE IF k = 2 THEN "500" ELSE "301"
CondType(k) == IF k = 1 THEN "json" ELSE IF k = 2 THEN "text" ELSE "xml"
CondBody(k) == IF k = 1 THEN "cb1" ELSE IF k = 2 THEN "cb2" ELSE "cb3"
CondHeaders(k) == IF k = 1 THEN "[H1]" ELSE IF k = 2 THEN "[H2]" ELSE "[H3]"

Cond(k, criteria, sets, activo) ==
    [orden |-> k - 1, criteria |-> criteria, activo |-> activo,
     codigo |-> IF "code" \in sets THEN CondCode(k) ELSE JsNull,
     tiporespuesta |-> IF "type" \in sets THEN CondType(k) ELSE JsNull,
     respuesta |-> IF "body" \in sets THEN CondBody(k) ELSE JsNull,
     customHeaders |-> IF "headers" \in sets THEN CondHeaders(k) ELSE JsNull]

AllFields == {"code", "type", "body", "headers"}

FieldSets == {{}, {"code"}, {"type"}, {"body"}, {"headers"}, AllFields}

CondRows(k) ==
    {Cond(k, e, sets, 1) : e \in Exprs, sets \in FieldSets}
        \cup {Cond(k, Expr("true"), AllFields, 0)}

RECURSIVE CondTables(_)
CondTables(n) ==
    IF n = 0 THEN {<<>>}
    ELSE CondTables(n - 1) \cup
         {Append(t, c) : t \in {u \in CondTables(n - 1) : Len(u) = n - 1}, c \in CondRows(n)}

\* The customResponse payloads of POST /initTask in the pipeline specification.
PipeOverrides ==
    {CrUndefined, CrString} \cup
    {CrObject(c, t, b, h) :
        c \in {JsUndefined, "#0", "#500", "abc"},
        t \in {JsUndefined, "file"},
        b \in {JsUndefined, "", "ob", JsObject},
        h \in {JsUndefined, "[H9]"}}

-----------------------------------------------------------------------------
(* Rule store: routes/api.js, the handlers that assign priority numbers *)

\* const PROXY_ORDER_START
PROXY_ORDER_START == 99999999

IsProxyRow(r) == r.tiporespuesta = "proxy"

SetMin(S) == CHOOSE x \in S : \A y \in S : x <= y

SetMax(S) == CHOOSE x \in S : \A y \in S : y <= x

\* Lines 41-63: getNextOrder(db, isProxy): one below the lowest proxy
\* number, or one above the highest number of the other rules.
getNextOrder(table, isProxy) ==
    LET os == {r.orden : r \in {x \in Rows(table) : IsProxyRow(x) = isProxy /\ x.orden # SqlNull}}
    IN IF isProxy
       THEN IF os = {} \/ SetMin(os) = 0 THEN PROXY_ORDER_START ELSE SetMin(os) - 1
       ELSE IF os = {} \/ SetMax(os) = 0 THEN 1 ELSE SetMax(os) + 1

\* The table with the orden of its i-th row set to numbers[i].
Reordered(table, numbers) == [i \in 1..Len(table) |-> [table[i] EXCEPT !.orden = numbers[i]]]

\* Lines 66-137: POST /create. The new row gets the next id and the next
\* priority number of its kind.
Create(kind) ==
    /\ Len(rutas) < MaxRows
    /\ rutas' = Append(rutas,
                       [Row(Len(rutas) + 1, "get", UrlA, 0, 1, getNextOrder(rutas, kind = "proxy"))
                           EXCEPT !.tiporespuesta = kind])
    /\ UNCHANGED <<conds, req, pc, rute, fields, custom, out>>
    /\ UNCHANGED <<semVars, proxy, evalCall, admin>>

\* Lines 139-212: POST /duplicate/:id. The copy keeps the kind of the original.
Duplicate(id) ==
    /\ Len(rutas) < MaxRows
    /\ id \in 1..Len(rutas)
    /\ rutas' = Append(rutas,
                       [rutas[id] EXCEPT !.id = Len(rutas) + 1, !.ruta = UrlB,
                                         !.orden = getNextOrder(rutas, IsProxyRow(rutas[id]))])
    /\ UNCHANGED <<conds, req, pc, rute, fields, custom, out>>
    /\ UNCHANGED <<semVars, proxy, evalCall, admin>>

\* Lines 214-322: PUT /update/:id. The priority number is computed anew only
\* when the rule changes between proxy and non-proxy.
Update(id, kind) ==
    /\ id \in 1..Len(rutas)
    /\ LET wasProxy == IsProxyRow(rutas[id])
           isProxy == kind = "proxy"
           newOrden == IF wasProxy # isProxy THEN getNextOrder(rutas, isProxy)
                       ELSE rutas[id].orden
       IN rutas' = [rutas EXCEPT ![id].tiporespuesta = kind, ![id].orden = newOrden]
    /\ UNCHANGED <<conds, req, pc, rute, fields, custom, out>>
    /\ UNCHANGED <<semVars, proxy, evalCall, admin>>

\* Lines 645-725: PUT /update-order/:id. Rules of the same kind between the
\* old and the new number are shifted by one, then the rule gets the number.
UpdateOrder(id, newOrden) ==
    /\ newOrden >= 1
    /\ id \in 1..Len(rutas)
    /\ LET currentOrden == rutas[id].orden
           isProxy == IsProxyRow(rutas[id])
           shifted(r) ==
               IF r.id = id THEN newOrden
               ELSE IF IsProxyRow(r) # isProxy THEN r.orden
               ELSE IF newOrden < currentOrden
                    THEN IF r.orden >= newOrden /\ r.orden < currentOrden
                         THEN r.orden + 1 ELSE r.orden
                    ELSE IF r.orden > currentOrden /\ r.orden <= newOrden
                         THEN r.orden - 1 ELSE r.orden
       IN rutas' = IF currentOrden = newOrden THEN rutas ELSE Reordered(rutas, [i \in 1..Len(rutas) |-> shifted(rutas[i])])
    /\ UNCHANGED <<conds, req, pc, rute, fields, custom, out>>
    /\ UNCHANGED <<semVars, proxy, evalCall, admin>>

\* Exchange the numbers of rule id and of the rule other.
Swapped(table, id, currentOrder, other) ==
    [i \in 1..Len(table) |->
        IF i = id THEN [table[i] EXCEPT !.orden = other.orden]
        ELSE IF i = other.id THEN [table[i] EXCEPT !.orden = currentOrder]
        ELSE table[i]]

\* Lines 728-765: PUT /move-up/:id. The rule exchanges numbers with a rule
\* that has the next lower number, of whatever kind.
MoveUp(id) ==
    /\ id \in 1..Len(rutas)
    /\ LET currentOrder == IF rutas[id].orden \in {SqlNull, 0} THEN OrdenDefault
                           ELSE rutas[id].orden
           lower == {r \in Rows(rutas) : r.orden # SqlNull /\ r.orden < currentOrder}
           prev == {r \in lower : \A o \in lower : o.orden <= r.orden}
       IN IF prev = {} THEN UNCHANGED rutas
          ELSE \E prevRow \in prev : rutas' = Swapped(rutas, id, currentOrder, prevRow)
    /\ UNCHANGED <<conds, req, pc, rute, fields, custom, out>>
    /\ UNCHANGED <<semVars, proxy, evalCall, admin>>

\* Lines 768-805: PUT /move-down/:id. The same with the next higher number.
MoveDown(id) ==
    /\ id \in 1..Len(rutas)
    /\ LET currentOrder == IF rutas[id].orden = SqlNull THEN 0 ELSE rutas[id].orden
           higher == {r \in Rows(rutas) : r.orden # SqlNull /\ r.orden > currentOrder}
           next == {r \in higher : \A o \in higher : r.orden <= o.orden}
       IN IF next = {} THEN UNCHANGED rutas
          ELSE \E nextRow \in next : rutas' = Swapped(rutas, id, currentOrder, nextRow)
    /\ UNCHANGED <<conds, req, pc, rute, fields, custom, out>>
    /\ UNCHANGED <<semVars, proxy, evalCall, admin>>

\* ORDER BY COALESCE(orden, 999999) ASC, id ASC
Before(a, b) ==
    \/ COALESCE(a.orden, OrdenDefault) < COALESCE(b.orden, OrdenDefault)
    \/ COALESCE(a.orden, OrdenDefault) = COALESCE(b.orden, OrdenDefault) /\ a.id < b.id

\* Lines 844-893: POST /normalize-order. Non-proxy rules are numbered 1, 2,
\* ... and proxy rules PROXY_ORDER_START, PROXY_ORDER_START - 1, ... in
\* their current order.
NormalizedTable(table) ==
    LET rank(r) == Cardinality({o \in Rows(table) : IsProxyRow(o) = IsProxyRow(r) /\ Before(o, r)})
        number(r) == IF IsProxyRow(r) THEN PROXY_ORDER_START - rank(r) ELSE 1 + rank(r)
    IN Reordered(table, [i \in 1..Len(table) |-> number(table[i])])

NormalizeOrder ==
    /\ rutas' = NormalizedTable(rutas)
    /\ UNCHANGED <<conds, req, pc, rute, fields, custom, out>>
    /\ UNCHANGED <<semVars, proxy, evalCall, admin>>

-----------------------------------------------------------------------------
(* Specifications *)

\* No evaluator call made.
EvalIdle == [phase |-> "idle"]

\* No administrative call in flight.
AdminIdle == [phase |-> "idle"]

AdminQuiet == evalCall = EvalIdle /\ admin = AdminIdle

SemInit ==
    /\ waitList = init
    /\ item = [i \in Ids |-> [sleep |-> TRUE, customResponse |-> CrUndefined]]
    /\ task = [i \in Ids |-> "idle"]
    /\ readBack = [i \in Ids |-> CrUndefined]
    /\ relArgs = [i \in Ids \cup {GhostId} |-> <<>>]
    /\ lastCall = [id |-> GhostId, arg |-> CrUndefined, ret |-> FALSE]
    /\ calls = 0

PipeIdle ==
    /\ rutas = <<>>
    /\ conds = <<>>
    /\ req = [url |-> UrlA, tipo |-> "get"]
    /\ pc = "idle"
    /\ rute = <<>>
    /\ fields = NoFields
    /\ custom = CrNull
    /\ out = NoResponse
    /\ proxy = ProxyIdle

\* The registry with NReq callers and the release trigger.
Park == \E id \in Ids : addToListAndWait(id) /\ UNCHANGED <<pipeVars, proxy, evalCall, admin>>

Resume == \E id \in Ids : WaitExit(id) /\ UNCHANGED <<pipeVars, proxy, evalCall, admin>>

Release ==
    /\ calls < MaxCalls
    /\ \E id \in Ids \cup {GhostId}, arg \in RegOverrides : wakeUp(id, arg)
    /\ UNCHANGED <<pipeVars, proxy, evalCall, admin>>

Init == SemInit /\ PipeIdle /\ AdminQuiet

Next == Park \/ Resume \/ Release

Spec == Init /\ [][Next]_vars

\* The event loop runs every timer that is due: each parked caller's snooze
\* timer keeps firing.
FairSpec == Spec /\ \A id \in Ids : WF_vars(WaitExit(id) /\ UNCHANGED <<pipeVars, proxy, evalCall, admin>>)

\* The matcher: one getRuta over a table of up to MaxRules rows.
MatchInit ==
    /\ SemInit
    /\ AdminQuiet
    /\ rutas \in RuleTables(MaxRules)
    /\ conds = <<>>
    /\ req \in Requests
    /\ pc = "start"
    /\ rute = <<>>
    /\ fields = NoFields
    /\ custom = CrNull
    /\ out = NoResponse
    /\ proxy = ProxyIdle

MatchNext == CheckRouteMatch

MatchSpec == MatchInit /\ [][MatchNext]_vars

\* Condition resolution: checkRoute up to line 169 over up to MaxConds conditions.
ResolveInit ==
    /\ SemInit
    /\ AdminQuiet
    /\ rutas = <<MockRoute("html", 0, JsNull)>>
    /\ conds \in CondTables(MaxConds)
    /\ req = [url |-> UrlA, tipo |-> "get"]
    /\ pc = "start"
    /\ rute = <<>>
    /\ fields = NoFields
    /\ custom = CrNull
    /\ out = NoResponse
    /\ proxy = ProxyIdle

ResolveNext == CheckRouteMatch \/ CheckRouteResolve

ResolveSpec == ResolveInit /\ [][ResolveNext]_vars

\* The whole handler for one request, with the release trigger and the
\* deletion of the rule.
PipeRelease ==
    /\ calls < PipeCalls
    /\ \E arg \in PipeOverrides : wakeUp(ReqId, arg)
    /\ UNCHANGED <<pipeVars, proxy, evalCall, admin>>

PipeInit ==
    /\ SemInit
    /\ AdminQuiet
    /\ \E kind \in {"html", "json", "file", "empty"}, wait \in {0, 1}, filePath \in {JsNull, "f.bin"} :
          rutas = <<MockRoute(kind, wait, filePath)>>
    /\ conds \in {<<>>, <<Cond(1, Expr("true"), AllFields, 1)>>}
    /\ req = [url |-> UrlA, tipo |-> "get"]
    /\ pc = "start"
    /\ rute = <<>>
    /\ fields = NoFields
    /\ custom = CrNull
    /\ out = NoResponse
    /\ proxy = ProxyIdle

PipeNext ==
    \/ CheckRouteMatch
    \/ CheckRouteResolve
    \/ CheckRoutePark
    \/ CheckRouteResume
    \/ CheckRouteReload
    \/ CheckRouteRender
    \/ PipeRelease
    \/ DeleteRoute

PipelineSpec == PipeInit /\ [][PipeNext]_vars

\* The whole handler for one request on a rule without active wait, for each
\* response kind, status code and header-transform list of the rule.
Kinds == {"json", "text", "html", "xml", "soap", "page", "file", "empty", "redirect"}

HeaderTexts == {JsNull, "[H0]", HSetType, HRemoveType, HSetSoap, HRemoveSoap, HInvalid}

RenderRoute(kind, codigo, customHeaders) ==
    [MockRoute(kind, 0, "f.bin") EXCEPT !.codigo = codigo, !.customHeaders = customHeaders]

RenderInit ==
    /\ SemInit
    /\ AdminQuiet
    /\ \E kind \in Kinds, codigo \in {"200", "301", "404"}, customHeaders \in HeaderTexts :
          rutas = <<RenderRoute(kind, codigo, customHeaders)>>
    /\ conds = <<>>
    /\ req = [url |-> UrlA, tipo |-> "get"]
    /\ pc = "start"
    /\ rute = <<>>
    /\ fields = NoFields
    /\ custom = CrNull
    /\ out = NoResponse
    /\ proxy = ProxyIdle

RenderNext ==
    \/ CheckRouteMatch
    \/ CheckRouteResolve
    \/ CheckRoutePark
    \/ CheckRouteRender

RenderSpec == RenderInit /\ [][RenderNext]_vars

\* One proxied exchange against an upstream that answers, fails or stays silent.
UrlUsers == <<"/", "p", "/", "u", "/", "5">>
UrlOrders == <<"/", "p", "/", "o", "/", "5">>

PatternUsers == <<"^", "/", "u", "/", ".", "*">>
PatternAny == <<".", "*">>

FallbackName(k) == IF k = 1 THEN "fb1" ELSE IF k = 2 THEN "fb2" ELSE IF k = 3 THEN "fb3" ELSE "fb4"

\* A condition of a fallback that is true and sets the status 404.
FallbackCondition == [criteria |-> Expr("true"), activo |-> 1, codigo |-> 404]

\* A condition of a fallback that tests the classified error for timeout
\* and sets the status 409.
TimeoutCondition == [criteria |-> ExprErrorTypeIsTimeout, activo |-> 1, codigo |-> 409]

\* The k-th active fallback of a proxy rule; its status is 200 + k.
Fallback(k, types, pattern, conditions) ==
    [nombre |-> FallbackName(k), error_types |-> types, path_pattern |-> pattern,
     codigo |-> 200 + k, conditions |-> conditions, orden |-> k, activo |-> 1]

FallbackRows(k) ==
    {Fallback(k, t, p, <<>>) :
        t \in {TypesList({"timeout"}), TypesList({"connection"}), TypesList({"http5xx"}),
               TypesList({"all"}), TypesUnparsable, TypesNotAList},
        p \in {PatternUsers, PatternAny, PatternBad}}
      \cup {Fallback(k, TypesList({"all"}), PatternAny, <<FallbackCondition>>),
            Fallback(k, TypesList({"all"}), PatternAny, <<TimeoutCondition>>)}

RECURSIVE FallbackLists(_)
FallbackLists(n) ==
    IF n = 0 THEN {<<>>}
    ELSE FallbackLists(n - 1) \cup
         {Append(l, f) : l \in {u \in FallbackLists(n - 1) : Len(u) = n - 1}, f \in FallbackRows(n)}

\* Line 80: timeout: p.proxy_timeout || 30000
DefaultTimeout == 30000

\* A loaded proxy rule (loadProxyConfigs, lines 52-83): stored are the rule's
\* rows of proxy_fallbacks, fallbacks the list the loader keeps of them.
\* proxy_timeout is the rule's stored timeout, SqlNull when none is set.
ProxyConfig(ruta, isRegex, targetValid, basePath, proxy_timeout, stored) ==
    [ruta |-> ruta, isRegex |-> isRegex, targetValid |-> targetValid,
     basePath |-> basePath, proxy_timeout |-> proxy_timeout,
     timeout |-> IF proxy_timeout \in {SqlNull, 0} THEN DefaultTimeout ELSE proxy_timeout,
     stored |-> stored,
     fallbacks |-> activeFallbacks(getProxyFallbacks(stored))]

\* Stored fallbacks whose order indexes run against the order of storage,
\* and with a fallback switched off.
SpecificFirst == Fallback(1, TypesList({"timeout"}), PatternUsers, <<>>)
GenericSecond == Fallback(2, TypesList({"all"}), PatternAny, <<>>)

StoredTables ==
    {<<GenericSecond, SpecificFirst>>,
     <<[GenericSecond EXCEPT !.orden = 1], [SpecificFirst EXCEPT !.orden = 2]>>,
     <<[SpecificFirst EXCEPT !.activo = 0], GenericSecond>>,
     <<[GenericSecond EXCEPT !.orden = 1, !.activo = 0], [SpecificFirst EXCEPT !.orden = 2]>>}

PrefixP == <<"/", "p">>

\* The snapshots of proxyConfigs: the rule for /p alone with each fallback
\* list and timeout, the same behind a regex rule that does not compile, a
\* regex rule, a target with a base path, fallbacks stored out of order or
\* switched off, a rule with a bad target, a rule for another path, and none.
ProxySnapshots ==
    {<<ProxyConfig(PrefixP, FALSE, TRUE, <<>>, t, f)>> :
        t \in {50, SqlNull}, f \in FallbackLists(MaxFallbacks)}
      \cup {<<ProxyConfig(PatternBad, TRUE, TRUE, <<>>, 50, <<>>),
              ProxyConfig(PrefixP, FALSE, TRUE, <<>>, 50, f)>> : f \in FallbackLists(1)}
      \cup {<<ProxyConfig(<<"^", "/", "p">>, TRUE, TRUE, <<>>, 50, f)>> : f \in FallbackLists(1)}
      \cup {<<ProxyConfig(PrefixP, FALSE, TRUE, <<"/", "v">>, 50, f)>> : f \in FallbackLists(1)}
      \cup {<<ProxyConfig(PrefixP, FALSE, TRUE, <<>>, 50, f)>> : f \in StoredTables}
      \cup {<<ProxyConfig(PrefixP, FALSE, FALSE, <<>>, 50, <<>>)>>,
            <<ProxyConfig(<<"/", "q">>, FALSE, TRUE, <<>>, 50, <<>>)>>,
            <<>>}

\* Error codes of the upstream request: refused, reset, host unreachable,
\* name not resolved, connect timed out, broken pipe.
UpstreamErrors ==
    {"ECONNREFUSED", "ECONNRESET", "EHOSTUNREACH", "ENOTFOUND", "ETIMEDOUT", "EPIPE"}

ProxyInit ==
    /\ SemInit
    /\ AdminQuiet
    /\ rutas = <<>>
    /\ conds = <<>>
    /\ req = [url |-> UrlA, tipo |-> "get"]
    /\ pc = "next"
    /\ rute = <<>>
    /\ fields = NoFields
    /\ custom = CrNull
    /\ out = NoResponse
    /\ \E s \in ProxySnapshots, u \in {UrlUsers, UrlOrders} :
          proxy = [ProxyIdle EXCEPT !.phase = "new", !.configs = s, !.url = u]

ProxyNext ==
    \/ ProxyStart
    \/ \E statusCode \in {200, 404, 503}, contentEncoding \in {"identity", "gzip"} :
          UpstreamResponse(statusCode, contentEncoding)
    \/ UpstreamEnd
    \/ DecompressError
    \/ \E err \in UpstreamErrors : UpstreamError(err)
    \/ TimeoutFires

ProxySpec == ProxyInit /\ [][ProxyNext]_vars

\* The rule store under the administrative calls, from an empty store. The
\* numbers are kept within MaxDrift of the ends of the two ranges.
OrdenCapped ==
    \A r \in Rows(rutas) :
       \/ r.orden >= 0 /\ r.orden <= MaxRows + MaxDrift
       \/ r.orden >= PROXY_ORDER_START - MaxRows - MaxDrift
             /\ r.orden <= PROXY_ORDER_START + MaxRows + MaxDrift

StoreInit == SemInit /\ PipeIdle /\ AdminQuiet

StoreNext ==
    \/ \E kind \in {"html", "proxy"} : Create(kind) /\ OrdenCapped'
    \/ \E id \in 1..MaxRows : Duplicate(id) /\ OrdenCapped'
    \/ \E id \in 1..MaxRows, kind \in {"html", "proxy"} : Update(id, kind) /\ OrdenCapped'
    \/ \E id \in 1..MaxRows, newOrden \in {1, 2, PROXY_ORDER_START} :
          UpdateOrder(id, newOrden) /\ OrdenCapped'
    \/ \E id \in 1..MaxRows : MoveUp(id)
    \/ \E id \in 1..MaxRows : MoveDown(id)
    \/ NormalizeOrder

StoreSpec == StoreInit /\ [][StoreNext]_vars

\* The criteria evaluator on its own: calls of validateCriteria and of
\* evaluateCriteria on the context of one request, whose body object the
\* calls share (routes.middleware.js:129-136 builds the context from req.body).
RECURSIVE TokenSeqs(_)
TokenSeqs(n) ==
    IF n = 0 THEN {<<>>}
    ELSE TokenSeqs(n - 1) \cup {Append(s, tk) : s \in TokenSeqs(n - 1), tk \in Tokens}

Texts == {NotAString} \cup {Text(s) : s \in TokenSeqs(MaxTokens)}

EvalRuns == Runs \cup {"errorTypeIsTimeout", "assignsBody", "bodyIsAssigned"}

ContextOf(body) == [RequestContext EXCEPT !.body = body]

EvalInit ==
    /\ SemInit /\ PipeIdle /\ admin = AdminIdle
    /\ evalCall = [phase |-> "ready", calls |-> 0, body |-> RequestContext.body]

\* validateCriteria(text)
ValidateCall(text) ==
    /\ evalCall.phase # "idle"
    /\ evalCall.calls < MaxEvals
    /\ evalCall' =
          [phase |-> "validated", calls |-> evalCall.calls + 1, body |-> evalCall.body,
           text |-> text, run |-> "none", valid |-> validateText(text).valid,
           threw |-> FALSE, success |-> FALSE, result |-> FALSE, executed |-> FALSE,
           before |-> evalCall.body]
    /\ UNCHANGED <<semVars, pipeVars, proxy, admin>>

\* evaluateCriteria(text, context), the text behaving as run says when executed
EvaluateCall(text, run) ==
    /\ evalCall.phase # "idle"
    /\ evalCall.calls < MaxEvals
    /\ LET ev == evaluateCriteria(ExprOf(text, run), ContextOf(evalCall.body))
       IN evalCall' =
             [phase |-> "evaluated", calls |-> evalCall.calls + 1, body |-> ev.body,
              text |-> text, run |-> run, valid |-> validateText(text).valid,
              threw |-> ev.threw, success |-> ev.success, result |-> ev.result,
              executed |-> ev.executed, before |-> evalCall.body]
    /\ UNCHANGED <<semVars, pipeVars, proxy, admin>>

EvalNext ==
    \/ \E text \in Texts : ValidateCall(text)
    \/ \E text \in Texts, run \in EvalRuns : EvaluateCall(text, run)

EvalSpec == EvalInit /\ [][EvalNext]_vars

-----------------------------------------------------------------------------
(* Conditions of a route: routes/api.js PUT /conditions/:routeId and          *)
(* services/sqlite.service.js saveConditionalResponses                       *)

\* The criteria field of a condition of the payload: absent, a number, or a
\* string.
CriteriaAbsent == [kind |-> "undefined", tokens |-> <<>>]
CriteriaNumber == [kind |-> "number", tokens |-> <<>>]
CriteriaString(tokens) == [kind |-> "string", tokens |-> tokens]

\* !c.criteria
CriteriaFalsy(c) == c.kind = "undefined" \/ (c.kind = "string" /\ c.tokens = <<>>)

\* The value as validateCriteria receives it.
AsText(c) == IF c.kind = "string" THEN Text(c.tokens) ELSE NotAString

\* api.js:512-530: the loop over the conditions of the payload; the status
\* the handler answers with, "ok" when the loop ends, "throws" when
\* c.criteria.trim is not a function.
RECURSIVE ValidateConditions(_)
ValidateConditions(conditions) ==
    IF conditions = <<>> THEN "ok"
    ELSE LET c == Head(conditions)
         IN IF CriteriaFalsy(c) THEN "400"
            ELSE IF c.kind # "string" THEN "throws"
            ELSE IF Trim(c.tokens) = <<>> THEN "400"
            ELSE IF ~validateText(AsText(c)).valid THEN "400"
            ELSE ValidateConditions(Tail(conditions))

\* The body of the PUT: its conditions field is an array or it is not.
NotAnArray == [array |-> FALSE, conditions |-> <<>>]
ArrayOf(conditions) == [array |-> TRUE, conditions |-> conditions]

\* api.js:505-530: the handler up to the call of saveConditionalResponses.
PutOutcome(payload) ==
    IF ~payload.array THEN "400" ELSE ValidateConditions(payload.conditions)

NoSave == [stage |-> "none"]
NoRead == [done |-> FALSE]

\* The rows of conditional_responses of the route written by the put-th PUT.
StoredRows(conditions, put) ==
    [i \in 1..Len(conditions) |-> [orden |-> i - 1, criteria |-> conditions[i], put |-> put]]

CondInit ==
    /\ SemInit /\ PipeIdle /\ evalCall = EvalIdle
    /\ admin = [phase |-> "conditions", stored |-> <<>>, save |-> NoSave, puts |-> 0,
                status |-> "none", payload |-> NotAnArray, before |-> <<>>, read |-> NoRead,
                last |-> "none"]

\* PUT /conditions/:routeId up to its first await. One save is in flight at
\* a time.
PutConditions(payload) ==
    /\ admin.phase = "conditions"
    /\ admin.puts < MaxPuts
    /\ LET outcome == PutOutcome(payload)
       IN /\ outcome = "ok" => admin.save = NoSave
          /\ admin' =
                [admin EXCEPT
                   !.puts = @ + 1,
                   !.last = "put",
                   !.status = IF outcome = "ok" THEN "pending" ELSE outcome,
                   !.payload = payload,
                   !.before = admin.stored,
                   !.read = NoRead,
                   !.save = IF outcome = "ok"
                            THEN [stage |-> "delete", old |-> admin.stored,
                                  new |-> StoredRows(payload.conditions, admin.puts + 1),
                                  next |-> 1]
                            ELSE @]
    /\ UNCHANGED <<semVars, pipeVars, proxy, evalCall>>

\* sqlite.service.js:383-388: the DELETE of the route's rows completes. With
\* nothing to insert the save returns and the handler answers.
SaveDelete ==
    /\ admin.phase = "conditions"
    /\ admin.save.stage = "delete"
    /\ admin' =
          IF admin.save.new = <<>>
          THEN [admin EXCEPT !.stored = <<>>, !.save = NoSave, !.status = "200",
                             !.read = NoRead, !.last = "save"]
          ELSE [admin EXCEPT !.stored = <<>>, !.save.stage = "insert", !.read = NoRead,
                             !.last = "save"]
    /\ UNCHANGED <<semVars, pipeVars, proxy, evalCall>>

\* sqlite.service.js:391-407: one INSERT completes. After the last one the
\* save returns and the handler answers (api.js:533-534).
SaveInsert ==
    /\ admin.phase = "conditions"
    /\ admin.save.stage = "insert"
    /\ LET i == admin.save.next
           stored == Append(admin.stored, admin.save.new[i])
       IN admin' =
             IF i = Len(admin.save.new)
             THEN [admin EXCEPT !.stored = stored, !.save = NoSave, !.status = "200",
                                !.read = NoRead, !.last = "save"]
             ELSE [admin EXCEPT !.stored = stored, !.save.next = i + 1, !.read = NoRead,
                                !.last = "save"]
    /\ UNCHANGED <<semVars, pipeVars, proxy, evalCall>>

\* routes.middleware.js:124-126: a request reads the conditions of the route.
ReadConditions ==
    /\ admin.phase = "conditions"
    /\ admin' =
          [admin EXCEPT
             !.read = [done |-> TRUE, seen |-> admin.stored,
                       old |-> IF admin.save = NoSave THEN admin.stored ELSE admin.save.old,
                       new |-> IF admin.save = NoSave THEN admin.stored ELSE admin.save.new]]
    /\ UNCHANGED <<semVars, pipeVars, proxy, evalCall>>

CriteriaValues ==
    {CriteriaAbsent, CriteriaNumber} \cup
    {CriteriaString(s) : s \in {<<>>, <<" ">>, <<"x">>, <<"eval(">>, <<TokenSyntaxError>>}}

RECURSIVE CriteriaSeqs(_)
CriteriaSeqs(n) ==
    IF n = 0 THEN {<<>>}
    ELSE CriteriaSeqs(n - 1) \cup
         {Append(s, c) : s \in CriteriaSeqs(n - 1), c \in CriteriaValues}

Payloads == {NotAnArray} \cup {ArrayOf(s) : s \in CriteriaSeqs(MaxPayload)}

CondNext ==
    \/ \E payload \in Payloads : PutConditions(payload)
    \/ SaveDelete
    \/ SaveInsert
    \/ ReadConditions

CondSpec == CondInit /\ [][CondNext]_vars

-----------------------------------------------------------------------------
(* Rule writes and the proxy snapshot: routes/api.js create, update, delete,  *)
(* toggle-active; proxy.middleware.js loadProxyConfigs, findMatchingProxy     *)

\* A row of rutas as far as the writes and the loader use it.
RuleRow(id, kind, orden, activo, ruta) ==
    [id |-> id, tiporespuesta |-> kind, orden |-> orden, activo |-> activo,
     ruta |-> ruta, isRegex |-> FALSE]

\* The URL of the request that is looked up, and the prefixes of the rules.
LookupUrl == <<"/", "a", "/", "x">>
RulePrefixes == {<<"/", "a">>, <<"/", "b">>}

\* sqlite.service.js:114-134: getProxys, SELECT * FROM rutas WHERE
\* tiporespuesta = 'proxy' AND (activo IS NULL OR activo = 1), with no ORDER
\* BY: the rows come in the order of the table.
getProxys(rows) == SelectSeq(rows, LAMBDA r : IsProxyRow(r) /\ r.activo = 1)

RemoveAt(s, k) == SubSeq(s, 1, k - 1) \o SubSeq(s, k + 1, Len(s))

RulesInit ==
    /\ SemInit /\ PipeIdle /\ evalCall = EvalIdle
    /\ admin = [phase |-> "rules", rows |-> <<>>, nextId |-> 1, writes |-> 0,
                creates |-> <<>>, loads |-> <<>>, proxyConfigs |-> <<>>,
                lookup |-> [done |-> FALSE]]

\* api.js:66-85: POST /create up to the answer of getNextOrder: the handler
\* has read the next priority number of the rule's kind.
CreateRead(kind, ruta) ==
    /\ admin.phase = "rules"
    /\ admin.writes < MaxWrites
    /\ Len(admin.rows) + Len(admin.creates) < MaxStored
    /\ admin' =
          [admin EXCEPT
             !.writes = @ + 1,
             !.creates = Append(@, [kind |-> kind, ruta |-> ruta,
                                    orden |-> getNextOrder(admin.rows, kind = "proxy")]),
             !.lookup = [done |-> FALSE]]
    /\ UNCHANGED <<semVars, pipeVars, proxy, evalCall>>

\* api.js:101-121: the INSERT of a create completes; a proxy rule asks for a
\* reload.
CreateInsert(k) ==
    /\ admin.phase = "rules"
    /\ k \in 1..Len(admin.creates)
    /\ LET c == admin.creates[k]
       IN admin' =
             [admin EXCEPT
                !.rows = Append(@, RuleRow(admin.nextId, c.kind, c.orden, 1, c.ruta)),
                !.nextId = @ + 1,
                !.creates = RemoveAt(@, k),
                !.loads = IF c.kind = "proxy" THEN Append(@, [stage |-> "select"]) ELSE @,
                !.lookup = [done |-> FALSE]]
    /\ UNCHANGED <<semVars, pipeVars, proxy, evalCall>>

\* api.js:594-611: PUT /toggle-active/:id, the UPDATE completes and the
\* handler asks for a reload.
ToggleActive(i, activo) ==
    /\ admin.phase = "rules"
    /\ admin.writes < MaxWrites
    /\ i \in 1..Len(admin.rows)
    /\ admin' =
          [admin EXCEPT
             !.writes = @ + 1,
             !.rows[i].activo = activo,
             !.loads = Append(@, [stage |-> "select"]),
             !.lookup = [done |-> FALSE]]
    /\ UNCHANGED <<semVars, pipeVars, proxy, evalCall>>

\* api.js:214-307: PUT /update/:id of a rule that stays of its kind, the
\* UPDATE completes and the handler asks for a reload.
UpdateRule(i, activo, ruta) ==
    /\ admin.phase = "rules"
    /\ admin.writes < MaxWrites
    /\ i \in 1..Len(admin.rows)
    /\ admin' =
          [admin EXCEPT
             !.writes = @ + 1,
             !.rows[i].activo = activo,
             !.rows[i].ruta = ruta,
             !.loads = Append(@, [stage |-> "select"]),
             !.lookup = [done |-> FALSE]]
    /\ UNCHANGED <<semVars, pipeVars, proxy, evalCall>>

\* api.js:324-357: DELETE of a rule, the DELETE completes and the handler
\* asks for a reload.
DeleteRule(i) ==
    /\ admin.phase = "rules"
    /\ admin.writes < MaxWrites
    /\ i \in 1..Len(admin.rows)
    /\ admin' =
          [admin EXCEPT
             !.writes = @ + 1,
             !.rows = RemoveAt(@, i),
             !.loads = Append(@, [stage |-> "select"]),
             !.lookup = [done |-> FALSE]]
    /\ UNCHANGED <<semVars, pipeVars, proxy, evalCall>>

\* part_001:47-49: the SELECT of a reload completes. With no row the
\* continuation assigns the empty snapshot at once; with rows the reload
\* goes on to query the fallbacks of each row (sqlite.service.js:127-129)
\* and their conditions (part_001:63-72), and assigns when those have
\* answered.
LoadSelect(k) ==
    /\ admin.phase = "rules"
    /\ k \in 1..Len(admin.loads)
    /\ admin.loads[k].stage = "select"
    /\ LET proxys == getProxys(admin.rows)
       IN admin' =
             IF proxys = <<>>
             THEN [admin EXCEPT !.loads = RemoveAt(@, k), !.proxyConfigs = <<>>,
                                !.lookup = [done |-> FALSE]]
             ELSE [admin EXCEPT !.loads[k] = [stage |-> "loaded", proxys |-> proxys],
                                !.lookup = [done |-> FALSE]]
    /\ UNCHANGED <<semVars, pipeVars, proxy, evalCall>>

\* part_001:52-83: the reload assigns proxyConfigs from the rows it read.
LoadAssign(k) ==
    /\ admin.phase = "rules"
    /\ k \in 1..Len(admin.loads)
    /\ admin.loads[k].stage = "loaded"
    /\ admin' =
          [admin EXCEPT !.loads = RemoveAt(@, k), !.proxyConfigs = admin.loads[k].proxys,
                        !.lookup = [done |-> FALSE]]
    /\ UNCHANGED <<semVars, pipeVars, proxy, evalCall>>

\* A request is looked up in the snapshot.
LookupProxy ==
    /\ admin.phase = "rules"
    /\ ~admin.lookup.done
    /\ admin' = [admin EXCEPT !.lookup = [done |-> TRUE,
                                          found |-> findMatchingProxy(admin.proxyConfigs,
                                                                      LookupUrl)]]
    /\ UNCHANGED <<semVars, pipeVars, proxy, evalCall>>

RulesNext ==
    \/ \E kind \in {"html", "proxy"}, ruta \in RulePrefixes : CreateRead(kind, ruta)
    \/ \E k \in 1..MaxStored : CreateInsert(k)
    \/ \E i \in 1..MaxStored, activo \in {0, 1} : ToggleActive(i, activo)
    \/ \E i \in 1..MaxStored, activo \in {0, 1}, ruta \in RulePrefixes :
          UpdateRule(i, activo, ruta)
    \/ \E i \in 1..MaxStored : DeleteRule(i)
    \/ \E k \in 1..MaxWrites : LoadSelect(k)
    \/ \E k \in 1..MaxWrites : LoadAssign(k)
    \/ LookupProxy

RulesSpec == RulesInit /\ [][RulesNext]_vars

-----------------------------------------------------------------------------
(* Claims about the active-wait registry *)

\* The last non-null override in a sequence of wakeUp arguments, undefined
\* when there is none.
RECURSIVE LastOverride(_)
LastOverride(args) ==
    IF args = <<>> THEN CrUndefined
    ELSE IF DefaultNull(args[Len(args)]) # CrNull THEN args[Len(args)]
         ELSE LastOverride(SubSeq(args, 1, Len(args) - 1))

\* A step is a wakeUp call for `id`.
IsWakeUpOf(id) == calls' = calls + 1 /\ lastCall'.id = id

\* C3: release returns true at most once per id: a release of an id that was
\* never parked, or whose item was already released once, returns false and
\* changes neither the list nor any item's released flag or override.
C3_SecondReleaseIsNoOp ==
    [][\A id \in Ids \cup {GhostId} :
          (IsWakeUpOf(id) /\ (id = GhostId \/ task[id] = "idle" \/ relArgs[id] # <<>>))
            => (lastCall'.ret = FALSE /\ waitList' = waitList /\ item' = item)]_vars

\* C4: once an item is parked and released, its task eventually resumes; it
\* resumes once (resumed is final) and from then on the item is not in the list.
C4_ReleasedEventuallyResumes ==
    /\ \A id \in Ids :
          (task[id] = "waiting" /\ relArgs[id] # <<>>) ~> (task[id] = "resumed")
    /\ [](\A id \in Ids : task[id] = "resumed" => ~InList(id))
    /\ [][\A id \in Ids : task[id] = "resumed" => task'[id] = "resumed"]_vars

C4_Witness ==
    \E id \in Ids : task[id] = "resumed" /\ Len(relArgs[id]) = 1 /\ ~InList(id)

\* C5: from the moment park registered an item until a release for its id,
\* the item is in the list and its task is still suspended.
C5_ParkedStaysListedAndSuspended ==
    \A id \in Ids :
        (task[id] # "idle" /\ relArgs[id] = <<>>)
            => (InList(id) /\ task[id] = "waiting" /\ item[id].sleep = TRUE)

C5_Witness ==
    \E id, other \in Ids :
        /\ id # other
        /\ task[id] = "waiting" /\ relArgs[id] = <<>> /\ InList(id)
        /\ task[other] = "resumed"
        /\ calls = MaxCalls

\* C6: a release of id k touches item k only (every other item keeps its
\* flag, override, list membership and task position), and each task reads
\* back the override passed to the release of its own id.
C6_ReleasesAreIndependent ==
    /\ [](\A id \in Ids : task[id] = "resumed" => readBack[id] = LastOverride(relArgs[id]))
    /\ [][\A k \in Ids \cup {GhostId} : IsWakeUpOf(k) =>
            \A j \in Ids \ {k} :
                /\ item'[j] = item[j]
                /\ task'[j] = task[j]
                /\ readBack'[j] = readBack[j]
                /\ relArgs'[j] = relArgs[j]
                /\ (\E i \in 1..Len(waitList') : waitList'[i] = j) <=> InList(j)]_vars

C6_Witness ==
    /\ \A id \in Ids : task[id] = "resumed" /\ Len(relArgs[id]) = 1
    /\ readBack[1].code = "#200"
    /\ readBack[2].code = "#404"
    /\ lastCall.id = 1

-----------------------------------------------------------------------------
(* Claims about the proxied exchange *)

\* C1: for one proxied request at most one of the timeout timer, the upstream
\* response callback and the upstream error callback writes the status line
\* and headers of the inbound response.
C1_SingleWriter == Len(proxy.writers) <= 1

\* The response callback relayed the headers and the error callback ran afterwards.
C1_Witness == proxy.writers = <<"response">> /\ proxy.upstream = "failed"

-----------------------------------------------------------------------------
(* Claims about the mock response pipeline *)

\* C2: every inbound request gets a response and the handler never ends with
\* an unhandled error, also when the rule is deleted while the request is
\* parked.
C2_HandlerNeverFails == pc # "unhandled"

\* The predicate of condition c is true: the expression is accepted and
\* yields a truthy value.
PredicateTrue(c) == c.criteria.valid /\ c.criteria.run = "true"

\* The predicate of condition c fails: invalid expression, thrown value or timeout.
PredicateFails(c) == ~c.criteria.valid \/ c.criteria.run \in {"throwsError", "timeout", "throwsNullish"}

\* The route defaults overridden by the columns that condition c sets.
Overridden(r, c) ==
    [code |-> IF c.codigo # JsNull THEN JsNumber(c.codigo) ELSE JsNumber(r.codigo),
     type |-> IF c.tiporespuesta # JsNull THEN c.tiporespuesta ELSE r.tiporespuesta,
     body |-> IF c.respuesta # JsNull THEN c.respuesta ELSE r.respuesta,
     headers |-> IF c.customHeaders # JsNull THEN c.customHeaders ELSE r.customHeaders]

\* The positions of the first active condition whose predicate is true.
FirstTrue ==
    {i \in 1..Len(conds) :
        /\ IsActive(conds[i]) /\ PredicateTrue(conds[i])
        /\ \A j \in 1..(i - 1) : ~(IsActive(conds[j]) /\ PredicateTrue(conds[j]))}

\* C7: the resolved code, kind, body and headers are the route defaults
\* overridden by exactly the fields of the first active condition whose
\* predicate is true; no later condition contributes.
C7_FirstTrueConditionWins ==
    pc = "resolved" =>
        fields = IF FirstTrue = {} THEN RouteDefaults(rute[1])
                 ELSE Overridden(rute[1], conds[CHOOSE i \in FirstTrue : TRUE])

NotFails(c) == ~PredicateFails(c)

\* C8: a failing predicate counts as false: the resolution is the one of the
\* condition list without the failing conditions, so the conditions after a
\* failing one are still evaluated.
C8_FailingPredicateIsFalse ==
    pc = "resolved" =>
        fields = ConditionLoop(RouteDefaults(rute[1]),
                               SelectSeq(getConditionalResponses(conds), NotFails))

\* The resolved fields with every field the override supplies put in place.
Supplied(f, cr) ==
    IF cr.t = "object"
    THEN [code |-> IF cr.code # JsUndefined THEN JsNumber(cr.code) ELSE f.code,
          type |-> IF cr.type # JsUndefined THEN cr.type ELSE f.type,
          body |-> IF cr.body # JsUndefined THEN cr.body ELSE f.body,
          headers |-> IF cr.headers # JsUndefined THEN cr.headers ELSE f.headers]
    ELSE f

\* C9: when a parked request is released, every field the override supplies
\* replaces the resolved one and the others stay as resolved; without an
\* override the response is the resolved one.
C9_OverrideReplacesSuppliedFields ==
    [][(pc = "render" /\ pc' # "render") => fields' = Supplied(fields, custom)]_vars

\* The last entry of the resolved header-transform list on header name.
LastTransform(name) ==
    LET ts == IF Truthy(fields.headers) /\ fields.headers # HInvalid
              THEN HeaderTransforms(fields.headers) ELSE <<>>
        on == {i \in 1..Len(ts) : ts[i].name = name}
    IN IF on = {} THEN <<>> ELSE <<ts[CHOOSE i \in on : \A j \in on : j <= i]>>

\* C19: the header-transform list is applied after the kind-specific
\* headers: in the response a header the list sets has the list's value and
\* a header the list removes is absent, Content-Type and SOAPAction included.
C19_TransformsOverrideKindHeaders ==
    out.sent =>
       \A name \in HeaderNames :
          LastTransform(name) # <<>> =>
             out.headers[name] = IF LastTransform(name)[1].action = "set"
                                 THEN LastTransform(name)[1].value ELSE Absent

\* C20: the render step is chosen by the resolved kind alone: the response is
\* the 301 redirect to the body exactly when the kind is redirect, and for
\* every other kind the body is rendered by that kind with the resolved
\* status code.
C20_RenderStepByKindAlone ==
    out.sent =>
       /\ out.as = "redirect" <=> fields.type = "redirect"
       /\ fields.type = "redirect" => out.status = "#301" /\ out.body = fields.body
       /\ fields.type # "redirect" => out.as = fields.type /\ out.status = fields.code

-----------------------------------------------------------------------------
(* Claims about the rule matcher *)

\* An active literal rule for the query-stripped path that accepts the method.
LiteralCandidate(r) ==
    /\ r.isRegex # 1
    /\ r.activo # 0
    /\ r.ruta = BeforeQuery(req.url)
    /\ r.tipo \in {req.tipo, "any"}

\* C10: when an active literal rule equals the query-stripped path and accepts
\* the method, the matcher returns a literal rule and never a regex rule,
\* whatever the priorities.
C10_LiteralBeatsRegex ==
    (pc # "start" /\ \E r \in Rows(rutas) : LiteralCandidate(r)) =>
        /\ rute # <<>>
        /\ LiteralCandidate(rute[1])

\* A regex rule with the better priority also matches, and the literal rule is returned.
C10_Witness ==
    /\ pc = "matched"
    /\ LiteralCandidate(rute[1])
    /\ \E r \in Rows(rutas) :
          /\ r.isRegex = 1 /\ r.activo = 1 /\ r.tipo = req.tipo
          /\ RegexCompiles(r.ruta) /\ RegexTest(r.ruta, req.url)
          /\ r.orden = 1 /\ rute[1].orden = 2

\* The priority number of a rule; a rule without one ranks after every number.
Priority(r) == IF r.orden = SqlNull THEN OrdenDefault ELSE r.orden

\* An active regex rule that accepts the method and whose pattern matches the
\* full URL, query string included.
RegexCandidate(r) ==
    /\ r.isRegex = 1
    /\ r.activo # 0
    /\ r.tipo \in {req.tipo, "any"}
    /\ RegexCompiles(r.ruta)
    /\ RegexTest(r.ruta, req.url)

\* C11: within each stage the matcher returns the best candidate: among the
\* matching literal rules one with the exact method before one with method
\* any, then the lowest priority number; among the regex rules matching the
\* full URL the one with the lowest priority number.
C11_BestCandidatePerStage ==
    pc # "start" =>
        IF \E r \in Rows(rutas) : LiteralCandidate(r)
        THEN /\ rute # <<>>
             /\ LiteralCandidate(rute[1])
             /\ \A o \in Rows(rutas) : LiteralCandidate(o) =>
                   /\ (o.tipo = req.tipo) => (rute[1].tipo = req.tipo)
                   /\ ((o.tipo = req.tipo) <=> (rute[1].tipo = req.tipo))
                         => Priority(rute[1]) <= Priority(o)
        ELSE IF \E r \in Rows(rutas) : RegexCandidate(r)
        THEN /\ rute # <<>>
             /\ RegexCandidate(rute[1])
             /\ \A o \in Rows(rutas) : RegexCandidate(o) => Priority(rute[1]) <= Priority(o)
        ELSE rute = <<>>

\* A rule with method any and the better priority number loses to the rule
\* with the exact method.
C11_Witness ==
    /\ pc = "matched"
    /\ LiteralCandidate(rute[1])
    /\ rute[1].tipo = req.tipo
    /\ rute[1].orden = 2
    /\ \E o \in Rows(rutas) : LiteralCandidate(o) /\ o.tipo = "any" /\ o.orden = 1

-----------------------------------------------------------------------------
(* Claims about proxy rules and fallbacks *)

\* A fallback whose stored match data is well formed.
WellFormed(f) == f.error_types.parse = "list" /\ RegexCompiles(f.path_pattern)

\* A loaded proxy rule that is well formed and matches the request URL.
ProxyCandidate(c) ==
    IF c.isRegex THEN RegexCompiles(c.ruta) /\ RegexTest(c.ruta, proxy.url)
    ELSE StartsWith(proxy.url, c.ruta)

\* C12: a proxy rule or fallback whose stored pattern or match data is
\* malformed is skipped: the exchange is not aborted by an exception, a
\* fallback that answers is a well-formed one, and the request is passed on
\* only when no well-formed proxy rule matches it.
C12_MalformedRulesAreSkipped ==
    /\ ~proxy.crashed
    /\ proxy.sent.via = "fallback" =>
          \E i \in 1..Len(proxy.config[1].fallbacks) :
             /\ proxy.config[1].fallbacks[i].nombre = proxy.sent.name
             /\ WellFormed(proxy.config[1].fallbacks[i])
    /\ proxy.phase = "passed" =>
          \A i \in 1..Len(proxy.configs) : ~ProxyCandidate(proxy.configs[i])

\* The upstream request is in flight and the exchange has not completed:
\* the response headers or the end of the body are still awaited.
ExchangeInFlight == proxy.upstream \in {"pending", "streaming", "stalled"}

\* C14: the rule's timeout bounds the whole upstream exchange: as long as the
\* upstream request is in flight and the body has not been received in full,
\* the timer that aborts the request is armed.
C14_TimerBoundsWholeExchange == ExchangeInFlight => proxy.timeoutId

\* The classes of upstream outcomes: the timer is a timeout; refused, reset,
\* host unreachable and name not resolved are connection failures; a status
\* of 500 to 599 is http5xx; socketTimeouts are the error codes that count
\* as a timeout besides the timer.
ClassOf(outcome, socketTimeouts) ==
    IF outcome.kind = "timer" THEN "timeout"
    ELSE IF outcome.kind = "error" /\ outcome.err \in socketTimeouts THEN "timeout"
    ELSE IF outcome.kind = "error"
            /\ outcome.err \in {"ECONNREFUSED", "ECONNRESET", "EHOSTUNREACH", "ENOTFOUND"}
    THEN "connection"
    ELSE IF outcome.kind = "response" /\ outcome.statusCode \in 500..599 THEN "http5xx"
    ELSE JsNull

\* The outcome handled last is looked up under its class, and an outcome of
\* no class makes no lookup and is answered by no fallback.
ClassifiedBy(socketTimeouts) ==
    proxy.outcome.kind # "none" =>
       /\ proxy.errorType = ClassOf(proxy.outcome, socketTimeouts)
       /\ ClassOf(proxy.outcome, socketTimeouts) = JsNull => proxy.sent.via # "fallback"

\* The rule of the exchange has a fallback for every class whose pattern
\* matches the path.
HasCatchAll ==
    /\ proxy.config # <<>>
    /\ \E i \in 1..Len(proxy.config[1].fallbacks) :
          LET f == proxy.config[1].fallbacks[i]
          IN /\ f.error_types = TypesList({"all"})
             /\ RegexCompiles(f.path_pattern)
             /\ RegexTest(f.path_pattern, proxy.subPath)

\* C15 as stated: the timer is the only timeout; every upstream error other
\* than refused, reset, host unreachable and name not resolved, and every
\* status below 500, attempts no fallback.
C15_OnlyTimerIsTimeout == ClassifiedBy({})

\* C15, amended: an upstream error with code ETIMEDOUT or ESOCKETTIMEDOUT
\* is a timeout as well; with that, outcomes are classified as listed and an
\* outcome of no class attempts no fallback, even with a catch-all fallback.
C15_Classification == ClassifiedBy({"ETIMEDOUT", "ESOCKETTIMEDOUT"})

\* An unclassified upstream error on a rule with a matching catch-all
\* fallback is answered 502 by the gateway.
C15_Witness ==
    /\ proxy.outcome = ErrorOutcome("EPIPE")
    /\ HasCatchAll
    /\ proxy.sent = BadGateway

\* Stored fallback f of the exchange's rule is active, its error classes
\* contain the classified error or "all", and its pattern matches the path
\* sent upstream.
Eligible(f) ==
    /\ f.activo = 1
    /\ f.error_types.parse = "list"
    /\ proxy.errorType \in f.error_types.list \/ "all" \in f.error_types.list
    /\ RegexCompiles(f.path_pattern)
    /\ RegexTest(f.path_pattern, proxy.subPath)

\* The eligible stored fallbacks with the lowest order index.
FirstEligible ==
    LET stored == proxy.config[1].stored
        eligible == {i \in 1..Len(stored) : Eligible(stored[i])}
    IN {stored[i] : i \in {j \in eligible : \A k \in eligible : stored[j].orden <= stored[k].orden}}

\* A classified failure was handled before any of the upstream's response
\* was relayed to the caller.
ClassifiedFailure == proxy.errorType # JsNull /\ proxy.sent.via # "upstream"

\* C16: on a classified upstream failure the fallback that answers is the
\* first of the rule's active fallbacks, by order index, whose error classes
\* contain the classified error or "all" and whose pattern matches the
\* post-rewrite path; with no such fallback none answers.
C16_FirstEligibleFallbackAnswers ==
    ClassifiedFailure =>
       IF FirstEligible = {} THEN proxy.sent.via # "fallback"
       ELSE /\ proxy.sent.via = "fallback"
            /\ \E f \in FirstEligible : proxy.sent.name = f.nombre

\* The timeout in force for the rule of the exchange: the one configured, or
\* the default when the rule configures none.
ConfiguredTimeout ==
    IF proxy.config[1].proxy_timeout = SqlNull THEN DefaultTimeout
    ELSE proxy.config[1].proxy_timeout

\* C17: an exchange that ends in a timeout with no fallback matching is
\* answered 504 with a message that carries the configured timeout; one that
\* ends in a connection failure with no fallback matching is answered 502.
C17_GatewayErrorWithoutFallback ==
    (ClassifiedFailure /\ FirstEligible = {}) =>
       /\ proxy.outcome.kind = "timer" =>
             /\ proxy.sent.status = 504
             /\ proxy.sent.error = "Gateway Timeout"
             /\ proxy.sent.ms = ConfiguredTimeout
       /\ (proxy.outcome.kind = "error" /\ proxy.errorType = "connection") =>
             /\ proxy.sent.status = 502
             /\ proxy.sent.error = "Bad Gateway"

\* The fallback that answered the exchange.
AnsweringFallback ==
    LET fs == proxy.config[1].fallbacks
    IN fs[CHOOSE i \in 1..Len(fs) : fs[i].nombre = proxy.sent.name]

\* C21: the conditions of the selected fallback see the classified error: a
\* condition that tests it for timeout overrides the fallback's status
\* exactly when the exchange failed with a timeout.
C21_ConditionSeesClassifiedError ==
    (proxy.sent.via = "fallback" /\ AnsweringFallback.conditions = <<TimeoutCondition>>) =>
       (proxy.sent.status = TimeoutCondition.codigo <=> proxy.errorType = "timeout")

\* C18: one inbound request opens at most one upstream request, whatever
\* the outcome of the exchange.
C18_SingleForwardingAttempt == proxy.attempts <= 1

\* The upstream request failed, no fallback matched and the gateway answered
\* 502 after the one attempt.
C18_Witness ==
    /\ proxy.attempts = 1
    /\ proxy.upstream = "failed"
    /\ proxy.errorType = "connection"
    /\ proxy.sent = BadGateway


-----------------------------------------------------------------------------
(* Claims about the rule store *)

\* C13: starting from an empty store, after any sequence of create,
\* duplicate, update, update-order, move-up, move-down and normalize-order
\* calls every non-proxy rule's priority number is lower than every proxy
\* rule's priority number.
C13_PriorityRangesDisjoint ==
    \A a, b \in Rows(rutas) : (~IsProxyRow(a) /\ IsProxyRow(b)) => a.orden < b.orden

\* C30: normalize-order keeps the relative order of the priority numbers of
\* any two rules of the same class, and normalizing a normalized table
\* changes nothing.
C30_NormalizeKeepsOrderAndIsIdempotent ==
    LET normalized == NormalizedTable(rutas)
    IN /\ \A i, j \in 1..Len(rutas) :
             (/\ IsProxyRow(rutas[i]) = IsProxyRow(rutas[j])
              /\ rutas[i].orden # SqlNull /\ rutas[j].orden # SqlNull
              /\ rutas[i].orden < rutas[j].orden)
                => normalized[i].orden < normalized[j].orden
       /\ NormalizedTable(normalized) = normalized

-----------------------------------------------------------------------------
(* Claims about the criteria evaluator *)

\* C22: evaluateCriteria never lets an exception out: every call returns a
\* result object, and a call that did not succeed returns result false.
C22_EvaluateNeverThrows ==
    evalCall.phase = "evaluated" =>
       /\ ~evalCall.threw
       /\ (~evalCall.success => ~evalCall.result)

\* C23: evaluating a condition leaves the body of the request as it arrived.
C23_EvaluationLeavesRequestUnchanged ==
    evalCall.phase = "evaluated" => evalCall.body = RequestContext.body

\* The text contains a piece that a pattern of the denylist matches.
MatchesDenylist(text) == text.string /\ Contains(text.tokens, DANGEROUS_PATTERNS)

-----------------------------------------------------------------------------
(* Claims about the conditions of a route *)

\* The payload is not an array, or one of its conditions has a criteria that
\* is missing, empty or not valid.
Rejectable(payload) ==
    \/ ~payload.array
    \/ \E i \in 1..Len(payload.conditions) :
          LET c == payload.conditions[i]
          IN \/ c.kind # "string"
             \/ Trim(c.tokens) = <<>>
             \/ ~validateText(AsText(c)).valid

\* The last step was a PUT of the conditions.
JustPut == admin.phase = "conditions" /\ admin.last = "put"

\* C25: a PUT whose payload is not an array, or has a condition with a
\* missing, empty or invalid criteria, is answered 400 and leaves the stored
\* conditions of the route as they were.
C25_SaveIsAllOrNothing ==
    (JustPut /\ Rejectable(admin.payload)) =>
       (admin.status = "400" /\ admin.stored = admin.before)

\* C29: a request reading the conditions of a route sees the whole list of
\* before the save in flight or the whole list of that save.
C29_ReadSeesOldOrNewList ==
    (admin.phase = "conditions" /\ admin.read.done) =>
       admin.read.seen \in {admin.read.old, admin.read.new}

-----------------------------------------------------------------------------
(* Claims about rule writes and the proxy snapshot *)

\* C26: when no rule write and no reload is in flight, the snapshot holds
\* the active proxy rules of the store.
C26_SnapshotEqualsStoreWhenQuiet ==
    (admin.phase = "rules" /\ admin.creates = <<>> /\ admin.loads = <<>>) =>
       admin.proxyConfigs = getProxys(admin.rows)

\* C27: a request that matches proxy rules of the snapshot is forwarded by
\* the matching one with the lowest priority number.
C27_LowestNumberForwards ==
    (admin.phase = "rules" /\ admin.lookup.done) =>
       LET matching == {c \in Rows(admin.proxyConfigs) : StartsWith(LookupUrl, c.ruta)}
       IN /\ admin.lookup.found = <<>> <=> matching = {}
          /\ admin.lookup.found # <<>> =>
                /\ admin.lookup.found[1] \in matching
                /\ \A o \in matching : admin.lookup.found[1].orden <= o.orden

\* C28: no two rules of the same class have the same priority number.
C28_CreatedNumbersAreUnique ==
    admin.phase = "rules" =>
       \A i, j \in 1..Len(admin.rows) :
          (i # j /\ IsProxyRow(admin.rows[i]) = IsProxyRow(admin.rows[j]))
             => admin.rows[i].orden # admin.rows[j].orden

=============================================================================
